---- MODULE Spec2Model ----
(***************************************************************************)
(* Calendar reconciliation scripts of practice-intelligently: the          *)
(* duplicate repair (calendar_sync_fix_script.py), the calendar audit      *)
(* (calendar_sync_audit.py), the cross-layer consistency check             *)
(* (comprehensive_connectivity_audit.py, automated_system_fixes.py) and    *)
(* the AI processors that write back to the datastore.                     *)
(***************************************************************************)
EXTENDS Integers, Sequences, FiniteSets, TLC

\* ------------------------------------------------------------------ bounds
MaxAppts   == 3      \* appointment ids 1..MaxAppts
MaxClients == 2      \* client ids 1..MaxClients
MaxStart   == 3      \* start times 1..MaxStart (half-hour ticks from 10:00)
MaxCreated == 2      \* created_at values 1..MaxCreated, NULL besides
MaxRuns    == 2      \* runs of the fix script one after the other
MaxHour    == 2      \* hours 1..MaxHour shown by a time string
MaxToday   == 1      \* appointments of today in the cross-layer check
MaxNotes   == 1      \* session notes

MaxReview  == 2      \* session notes fetched by the date review
MaxDate    == 3      \* dates 1..MaxDate, in units of thirty days

MaxEvents  == 1      \* google event ids 1..MaxEvents, NULL besides

MaxCalEvents == 1    \* events of today returned by the calendar provider

MaxIssues  == 11     \* entries logged by a run of the application audit
MaxEntries == 4      \* entries added to the report of the calendar audit

MaxAuditIssues == 2  \* issues identified by the codebase auditor

\* ------------------------------------------------------- program constants
NULL        == 0     \* SQL NULL (created_at) / Python None
TherapistId == 1     \* the single hardcoded therapist of the practice
Duration    == 2     \* a session lasts two ticks (one hour)
OverlapLimit == 10   \* LIMIT 10 of the overlap listing
Window      == 7     \* days around a note in which an appointment matches

BadDate     == -1    \* a date string that strptime('%Y-%m-%d') rejects
NowDate     == 1     \* datetime.now(), in units of thirty days
PastWindow  == 24    \* timedelta(days=730), in units of thirty days
FutureWindow == 1    \* timedelta(days=30), in units of thirty days

max_iterations == 10 \* max_iterations of run_fixes

ManyClients == 10    \* more clients than this without appointments is a warning
ShownEvents == 5     \* duplicate_events[:5]

critical_weight == 10   \* calculate_audit_score: penalty of a critical issue
high_weight == 5        \* penalty of an entry of self.issues
warning_weight == 1     \* penalty of an entry of self.warnings
BaseScore   == 100      \* the score of an audit without issues, and the percent scale

ApptIds  == 1..MaxAppts
Clients  == 1..MaxClients
Fixers   == {1, 2}

\* The four columns add_performance_indexes looks for, in the order it
\* tests them.
IndexColumns == <<"client_id", "google_event_id", "start_time", "therapist_id">>

PrimaryKeyIndex == "appointments_pkey"

IndexName(col) == "idx_appointments_" \o col

\* indexdef of an index, as the set of column names its text mentions
IndexDefColumns(name) ==
    IF name = PrimaryKeyIndex THEN {"id"}
    ELSE {IndexColumns[i] : i \in {j \in 1..Len(IndexColumns) : IndexName(IndexColumns[j]) = name}}

\* Rows of table appointments
ApptRows ==
    [id : ApptIds, client_id : Clients, therapist_id : {TherapistId},
     start_time : 1..MaxStart, end_time : (1 + Duration)..(MaxStart + Duration),
     created_at : {NULL} \cup (1..MaxCreated)]

ValidRows == {r \in ApptRows : r.end_time = r.start_time + Duration}

VARIABLES
    appointments,   \* committed rows of table appointments
    clients,        \* ids of the rows of table clients
    indexes,        \* names of the indexes on appointments
    enabled,        \* the fixer processes that exist in this behaviour
    pc,             \* per fixer: position in main / run_all_fixes
    removeList,     \* per fixer: ids still to delete, in loop order
    keep,           \* per fixer: the ids appointment_ids[0] of the groups read
    readFrom,       \* per fixer: the committed rows its SELECT read
    txDeleted,      \* per fixer: ids deleted in its open transaction
    total_removed,  \* per fixer: local counter of the delete loop
    fixes_applied,  \* per fixer: self.fixes_applied
    overlaps,       \* per fixer: pairs listed by analyze_overlapping_appointments
    remaining_duplicates, \* per fixer: count read by generate_fix_report
    exitCode,       \* per fixer: return value of main, -1 while running
    indexes_to_create, \* per fixer: columns add_performance_indexes found unindexed
    createFailed,   \* per fixer: some CREATE INDEX of this run raised an error
    runs,           \* per fixer: number of finished runs
    runLimit,       \* how often each fixer is started in this behaviour
    auditPc,        \* position of the calendar sync audit
    issues,         \* the audit's self.issues
    warnings,       \* the audit's self.warnings
    history,        \* sequence of records, one per finished run
    dbUp,           \* cross-layer check: the datastore can be reached
    db_appointments,   \* today's appointments as the datastore query returns them
    apiStatus,      \* status code of GET /api/appointments/today
    api_appointments,  \* the JSON list of that response
    db_clients,     \* number of client rows of the therapist
    apiClientStatus,   \* status code of GET /api/clients
    api_clients,    \* length of the JSON list of that response
    crossPc,        \* position of the connectivity audit's cross-layer test
    consistency_issues, \* its local list consistency_issues
    audit_results,  \* the entries written by log_result
    crossReturn,    \* return value of test_data_consistency_cross_layer
    syncPc,         \* position of fix_appointment_time_synchronization
    issues_found,   \* ids it counted as time mismatch
    syncReturn,     \* its return value
    session_notes,  \* rows of table session_notes, by id
    notesPc,        \* position of process_all_notes
    notesTodo,      \* the notes fetched and not yet processed
    processed_count,   \* self.processed_count
    error_count     \* self.error_count

\* State of the AI date extraction review (ai_date_extraction_reviewer.py)
VARIABLES
    note_dates,     \* session_date and created_at of the rows of session_notes
    reviewPc,       \* position of review_all_notes
    reviewTodo,     \* the notes fetched for review and not yet reviewed
    review_results, \* self.review_results
    date_counts     \* self.processed_count, corrected_count and error_count

reviewVars == <<note_dates, reviewPc, reviewTodo, review_results, date_counts>>

\* State of a whole run of the calendar sync audit (calendar_sync_audit.py)
VARIABLES
    auditPlan,      \* "single": only check_duplicate_appointments; "full": main
    stats,          \* the audit's self.stats
    audit_report,   \* what generate_report printed and main saved, "none" before
    auditExit       \* return value of the audit's main, -1 while it runs

auditRunVars == <<auditPlan, stats, audit_report, auditExit>>

\* State of the connectivity audit's test of the Google Calendar integration
VARIABLES
    calendarStatus, \* status code of GET /api/oauth/calendar
    calendars,      \* what that response holds
    eventsStatus,   \* status code of GET /api/oauth/events/today
    events,         \* that response: whether it parses as JSON, and its list
    calPc,          \* position of test_google_calendar_integration
    sync_issues,    \* its local list sync_issues
    calReturn       \* its return value

calendarVars == <<calendarStatus, calendars, eventsStatus, events, calPc,
                  sync_issues, calReturn>>

\* State of the two audits that compute a score
\* (comprehensive_application_audit.py, calendar_audit_script.py)
VARIABLES
    scoreScript,    \* which of the two audits runs: "application" or "calendar"
    scorePc,        \* its position: "checks" while its checks run
    critical_issues,   \* ApplicationAuditor.critical_issues, by severity
    high_issues,    \* ApplicationAuditor.issues, by severity
    app_warnings,   \* ApplicationAuditor.warnings, by severity
    audit_score,    \* audit_results["audit_score"], -1 before it is computed
    report,         \* the CalendarAuditReport of the calendar audit
    score           \* the score generate_report prints, as a fraction

scoreVars == <<scoreScript, scorePc, critical_issues, high_issues, app_warnings,
               audit_score, report, score>>

\* State of the run of automated_system_fixes.py, which ends by running
\* comprehensive_connectivity_audit.py, or of a run of that audit alone
VARIABLES
    pipeScript,     \* the script that was started: "fixes" or "audit"
    pipePc,         \* the step of PipeSteps the run is at; 0 while off
    provider,       \* the calendar provider: "answers", "fails" or "hangs"
    pipeDb,         \* whether the datastore accepts connections
    pipeLog         \* the results printed so far, in order

VARIABLES
    auditor_issues, \* CodebaseAuditor.issues
    iteration,      \* the local iteration of run_fixes
    all_issues,     \* the issues the for loop of run_fixes has still to visit
    fixed_count,    \* CodebaseAuditor.fixed_count
    runPc,          \* where run_fixes is: "off", "while", "for", "final", "done"
    runReturn       \* what run_fixes returned, "None" before it returns

pipeVars == <<pipeScript, pipePc, provider, pipeDb, pipeLog>>

runVars == <<auditor_issues, iteration, all_issues, fixed_count, runPc, runReturn>>

scriptVars == <<pipeVars, runVars>>

otherVars == <<reviewVars, auditRunVars, calendarVars, scoreVars, scriptVars>>

vars == <<appointments, clients, indexes, enabled, pc, removeList, keep,
          readFrom, txDeleted, total_removed, fixes_applied, overlaps,
          remaining_duplicates, exitCode, indexes_to_create, createFailed,
          runs, runLimit, auditPc, issues, warnings, history,
          dbUp, db_appointments, apiStatus, api_appointments, db_clients,
          apiClientStatus, api_clients, crossPc, consistency_issues,
          audit_results, crossReturn, syncPc, issues_found, syncReturn,
          session_notes, notesPc, notesTodo, processed_count, error_count,
          otherVars>>

crossVars == <<dbUp, db_appointments, apiStatus, api_appointments, db_clients,
               apiClientStatus, api_clients, crossPc, consistency_issues,
               audit_results, crossReturn, syncPc, issues_found, syncReturn>>

notesVars == <<session_notes, notesPc, notesTodo, processed_count, error_count>>

fixVars == <<appointments, clients, indexes, enabled, pc, removeList, keep,
             readFrom, txDeleted, total_removed, fixes_applied, overlaps,
             remaining_duplicates, exitCode, indexes_to_create, createFailed,
             runs, runLimit, auditPc, issues, warnings, history>>

\* ---------------------------------------------------------------- helpers
Key(r) == <<r.client_id, r.start_time, r.end_time>>

RowIds(rows) == {r.id : r \in rows}

RowOf(rows, i) == CHOOSE r \in rows : r.id = i

\* GROUP BY client_id, start_time, end_time HAVING COUNT(*) > 1
Group(rows, k) == {r \in rows : Key(r) = k}

DuplicateKeys(rows) == {k \in {Key(r) : r \in rows} : Cardinality(Group(rows, k)) > 1}

\* ORDER BY created_at, ascending: NULL sorts after every value
CreatedBefore(a, b) ==
    /\ a.created_at # NULL
    /\ b.created_at = NULL \/ a.created_at < b.created_at

\* array_agg(id ORDER BY created_at): every order of the group that respects
\* created_at; rows with equal created_at come in any order
Orderings(g) ==
    {s \in [1..Cardinality(g) -> RowIds(g)] :
        /\ \A i, j \in DOMAIN s : i # j => s[i] # s[j]
        /\ \A i, j \in DOMAIN s : i < j => ~CreatedBefore(RowOf(g, s[j]), RowOf(g, s[i]))}

SeqToSet(s) == {s[i] : i \in DOMAIN s}

\* all sequences that list the elements of S once each
Perms(S) ==
    {s \in [1..Cardinality(S) -> S] : \A i, j \in DOMAIN s : i # j => s[i] # s[j]}

RECURSIVE Flatten(_)
Flatten(ss) == IF ss = <<>> THEN <<>> ELSE Head(ss) \o Flatten(Tail(ss))

\* appointment_ids[:-1], the mutant of Rest that keeps the last id
RestKeepsLast(s) == IF s = <<>> THEN <<>> ELSE SubSeq(s, 1, Len(s) - 1)

\* appointment_ids[1:2], the mutant of Rest that removes one id per group
RestOnlySecond(s) == IF Len(s) < 2 THEN <<>> ELSE <<s[2]>>

\* appointment_ids[1:]
Rest(s) == IF s = <<>> THEN <<>> ELSE Tail(s)

\* ------------------------------------------------------------ initial state
\* state of one fixer process right after CalendarSyncFixer() is constructed
FreshFixer(f) ==
    /\ pc' = [pc EXCEPT ![f] = "select"]
    /\ removeList' = [removeList EXCEPT ![f] = <<>>]
    /\ keep' = [keep EXCEPT ![f] = {}]
    /\ readFrom' = [readFrom EXCEPT ![f] = {}]
    /\ txDeleted' = [txDeleted EXCEPT ![f] = {}]
    /\ total_removed' = [total_removed EXCEPT ![f] = 0]
    /\ fixes_applied' = [fixes_applied EXCEPT ![f] = <<>>]
    /\ overlaps' = [overlaps EXCEPT ![f] = {}]
    /\ remaining_duplicates' = [remaining_duplicates EXCEPT ![f] = 0]
    /\ exitCode' = [exitCode EXCEPT ![f] = -1]
    /\ indexes_to_create' = [indexes_to_create EXCEPT ![f] = <<>>]
    /\ createFailed' = [createFailed EXCEPT ![f] = FALSE]

\* a row with id i and the other columns of row p
WithId(p, i) == [p EXCEPT !.id = i]

\* tables with unique ids 1..n, each row drawn from rowset (ids aside)
Tables(rowset) ==
    UNION {{{WithId(t[i], i) : i \in 1..n} : t \in [1..n -> {r \in rowset : r.id = 1}]} :
              n \in 0..MaxAppts}

AllFixIndexes == {IndexName(IndexColumns[i]) : i \in DOMAIN IndexColumns}

InitFixers(en, limit) ==
    /\ enabled = en
    /\ runLimit = limit
    /\ pc = [f \in Fixers |-> IF f \in en THEN "idle" ELSE "off"]
    /\ removeList = [f \in Fixers |-> <<>>]
    /\ keep = [f \in Fixers |-> {}]
    /\ readFrom = [f \in Fixers |-> {}]
    /\ txDeleted = [f \in Fixers |-> {}]
    /\ total_removed = [f \in Fixers |-> 0]
    /\ fixes_applied = [f \in Fixers |-> <<>>]
    /\ overlaps = [f \in Fixers |-> {}]
    /\ remaining_duplicates = [f \in Fixers |-> 0]
    /\ exitCode = [f \in Fixers |-> -1]
    /\ indexes_to_create = [f \in Fixers |-> <<>>]
    /\ createFailed = [f \in Fixers |-> FALSE]
    /\ runs = [f \in Fixers |-> 0]
    /\ history = <<>>

InitAudit(start) ==
    /\ auditPc = start
    /\ issues = <<>>
    /\ warnings = <<>>

\* the cross-layer checks are not run
CrossOff ==
    /\ dbUp = TRUE
    /\ db_appointments = <<>>
    /\ apiStatus = 200
    /\ api_appointments = <<>>
    /\ db_clients = 0
    /\ apiClientStatus = 200
    /\ api_clients = 0
    /\ crossPc = "off"
    /\ consistency_issues = <<>>
    /\ audit_results = <<>>
    /\ crossReturn = "None"
    /\ syncPc = "off"
    /\ issues_found = {}
    /\ syncReturn = "None"

\* the session note processor is not run
NotesOff ==
    /\ session_notes = <<>>
    /\ notesPc = "off"
    /\ notesTodo = <<>>
    /\ processed_count = 0
    /\ error_count = 0

\* review_all_notes is not run
ReviewOff ==
    /\ note_dates = <<>>
    /\ reviewPc = "off"
    /\ reviewTodo = <<>>
    /\ review_results = <<>>
    /\ date_counts = [processed |-> 0, corrected |-> 0, errors |-> 0]

\* self.stats = {}
NoStats == [total_appointments |-> 0, google_synced_appointments |-> 0,
            unsynced_appointments |-> 0]

NoReport == [printed |-> FALSE, saved |-> FALSE, issues |-> <<>>, warnings |-> <<>>,
             fix_priority |-> <<>>]

\* the audit is not run as a whole
AuditRunOff ==
    /\ auditPlan = "single"
    /\ stats = NoStats
    /\ audit_report = NoReport
    /\ auditExit = -1

\* test_google_calendar_integration is not run
CalendarOff ==
    /\ calendarStatus = 200
    /\ calendars = "simple_practice"
    /\ eventsStatus = 200
    /\ events = [json |-> TRUE, list |-> <<>>]
    /\ calPc = "off"
    /\ sync_issues = <<>>
    /\ calReturn = "None"

\* CalendarAuditReport()
EmptyReport == [issues |-> <<>>, warnings |-> <<>>, passed_checks |-> <<>>,
                critical_issues |-> <<>>]

\* no score is computed yet
NoScore == [num |-> -1, den |-> 1]

\* none of the scoring audits is run
ScoreOff ==
    /\ scoreScript = "none"
    /\ scorePc = "off"
    /\ critical_issues = <<>>
    /\ high_issues = <<>>
    /\ app_warnings = <<>>
    /\ audit_score = -1
    /\ report = EmptyReport
    /\ score = NoScore

\* neither the automated fixes nor the connectivity audit is run
PipeOff ==
    /\ pipeScript = "none"
    /\ pipePc = 0
    /\ provider = "answers"
    /\ pipeDb = TRUE
    /\ pipeLog = <<>>

\* run_fixes of the codebase auditor is not run
RunFixesOff ==
    /\ auditor_issues = <<>>
    /\ iteration = 0
    /\ all_issues = <<>>
    /\ fixed_count = 0
    /\ runPc = "off"
    /\ runReturn = "None"

ScriptsOff == PipeOff /\ RunFixesOff

\* none of the other scripts is run
OtherOff ==
    /\ ReviewOff
    /\ AuditRunOff
    /\ CalendarOff
    /\ ScoreOff
    /\ ScriptsOff

\* The audit is run, then the fix script, then the fix script again.
Init ==
    /\ CrossOff
    /\ NotesOff
    /\ OtherOff
    /\ appointments \in Tables(ValidRows)
    /\ clients \in {Clients, Clients \ {MaxClients}}
    /\ indexes = {PrimaryKeyIndex}
    /\ InitFixers({1}, MaxRuns)
    /\ InitAudit("check_duplicates")

\* ------------------------------------------------- fix_duplicate_appointments
\* the rows fetched by the duplicates query: one array per duplicate key, the
\* groups in any order
DuplicateResults(rows) ==
    LET dups == DuplicateKeys(rows)
        arrs == UNION {Orderings(Group(rows, k)) : k \in dups}
    IN  {<<ks, arr>> \in Perms(dups) \X [dups -> arrs] :
            \A k \in dups : arr[k] \in Orderings(Group(rows, k))}

\* the ids the nested loop deletes, in loop order
RemovalOrder(ks, arr) == Flatten([i \in 1..Len(ks) |-> Rest(arr[ks[i]])])

SelectDuplicates(f) ==
    /\ pc[f] = "select"
    /\ readFrom' = [readFrom EXCEPT ![f] = appointments]
    /\ IF DuplicateKeys(appointments) = {}
       THEN /\ fixes_applied' = [fixes_applied EXCEPT ![f] = Append(@, <<"No duplicate appointments found">>)]
            /\ pc' = [pc EXCEPT ![f] = "indexes"]
            /\ UNCHANGED <<removeList, keep, total_removed>>
       ELSE /\ \E res \in DuplicateResults(appointments) :
                /\ removeList' = [removeList EXCEPT ![f] = RemovalOrder(res[1], res[2])]
                /\ keep' = [keep EXCEPT ![f] = {res[2][k][1] : k \in DOMAIN res[2]}]
            /\ total_removed' = [total_removed EXCEPT ![f] = 0]
            /\ pc' = [pc EXCEPT ![f] = "delete"]
            /\ UNCHANGED fixes_applied
    /\ UNCHANGED <<appointments, clients, indexes, enabled, txDeleted, overlaps,
                   remaining_duplicates, exitCode, indexes_to_create,
                   createFailed, runs, runLimit, crossVars, notesVars, otherVars, auditPc, issues, warnings, history>>

\* DELETE FROM appointments WHERE id = ...: waits while another transaction
\* holds the row deleted and uncommitted; deletes nothing when the row is gone
RowLocked(f, i) == \E g \in Fixers \ {f} : i \in txDeleted[g]

\* the mutant of DeleteRow on an autocommit connection: each DELETE is
\* persisted at once
DeleteRowAutocommit(f) ==
    /\ pc[f] = "delete"
    /\ removeList[f] # <<>>
    /\ appointments' = {r \in appointments : r.id # Head(removeList[f])}
    /\ total_removed' = [total_removed EXCEPT ![f] = @ + 1]
    /\ removeList' = [removeList EXCEPT ![f] = Tail(@)]
    /\ UNCHANGED <<clients, indexes, enabled, pc, keep, readFrom, txDeleted,
                   fixes_applied, overlaps, remaining_duplicates, exitCode,
                   indexes_to_create, createFailed, runs, runLimit, crossVars, notesVars, otherVars, auditPc,
                   issues, warnings, history>>

DeleteRow(f) ==
    /\ pc[f] = "delete"
    /\ removeList[f] # <<>>
    /\ LET i == Head(removeList[f]) IN
        /\ ~RowLocked(f, i)
        /\ txDeleted' = [txDeleted EXCEPT ![f] =
                            IF i \in RowIds(appointments) THEN @ \cup {i} ELSE @]
    /\ total_removed' = [total_removed EXCEPT ![f] = @ + 1]
    /\ removeList' = [removeList EXCEPT ![f] = Tail(@)]
    /\ UNCHANGED <<appointments, clients, indexes, enabled, pc, keep, readFrom,
                   fixes_applied, overlaps, remaining_duplicates, exitCode,
                   indexes_to_create, createFailed, runs, runLimit, crossVars, notesVars, otherVars, auditPc, issues, warnings, history>>

\* the mutant of CommitDeletes whose deletes took every appointment of the
\* client of a removed row
CommitDeletesByClient(f) ==
    /\ pc[f] = "delete"
    /\ removeList[f] = <<>>
    /\ appointments' = {r \in appointments :
                           \A d \in appointments : d.id \in txDeleted[f] => d.client_id # r.client_id}
    /\ txDeleted' = [txDeleted EXCEPT ![f] = {}]
    /\ fixes_applied' = [fixes_applied EXCEPT ![f] =
                            Append(@, <<"Removed duplicate appointments", total_removed[f]>>)]
    /\ pc' = [pc EXCEPT ![f] = "indexes"]
    /\ UNCHANGED <<clients, indexes, enabled, removeList, keep, readFrom,
                   total_removed, overlaps, remaining_duplicates, exitCode,
                   indexes_to_create, createFailed, runs, runLimit, crossVars, notesVars, otherVars, auditPc, issues, warnings, history>>

\* self.conn.commit() after the loop
CommitDeletes(f) ==
    /\ pc[f] = "delete"
    /\ removeList[f] = <<>>
    /\ appointments' = {r \in appointments : r.id \notin txDeleted[f]}
    /\ txDeleted' = [txDeleted EXCEPT ![f] = {}]
    /\ fixes_applied' = [fixes_applied EXCEPT ![f] =
                            Append(@, <<"Removed duplicate appointments", total_removed[f]>>)]
    /\ pc' = [pc EXCEPT ![f] = "indexes"]
    /\ UNCHANGED <<clients, indexes, enabled, removeList, keep, readFrom,
                   total_removed, overlaps, remaining_duplicates, exitCode,
                   indexes_to_create, createFailed, runs, runLimit, crossVars, notesVars, otherVars, auditPc, issues, warnings, history>>

\* A statement of the delete loop or the commit raises (lost connection,
\* deadlock victim, statement error): the exception leaves run_all_fixes, main
\* returns 1 and the process ends with its transaction uncommitted, which the
\* server rolls back.
RunRecord(f, code, appts, idx, failed) ==
    [fixer |-> f, exit |-> code, appointments |-> appts, indexes |-> idx,
     createFailed |-> failed, before |-> readFrom[f]]

FailDuringDelete(f) ==
    /\ pc[f] = "delete"
    /\ txDeleted' = [txDeleted EXCEPT ![f] = {}]
    /\ pc' = [pc EXCEPT ![f] = "failed"]
    /\ exitCode' = [exitCode EXCEPT ![f] = 1]
    /\ runs' = [runs EXCEPT ![f] = @ + 1]
    /\ history' = Append(history, RunRecord(f, 1, appointments, indexes, createFailed[f]))
    /\ UNCHANGED <<appointments, clients, indexes, enabled, removeList, keep,
                   readFrom, total_removed, fixes_applied, overlaps,
                   remaining_duplicates, indexes_to_create, createFailed,
                   runLimit, crossVars, notesVars, otherVars, auditPc, issues, warnings>>

\* ---------------------------------------------------- add_performance_indexes
\* the SELECT on pg_indexes and the tests of existing_columns
MissingColumns(idx) ==
    LET existing_columns == UNION {IndexDefColumns(n) : n \in idx}
    IN  SelectSeq(IndexColumns, LAMBDA c : c \notin existing_columns)

CheckIndexes(f) ==
    /\ pc[f] = "indexes"
    /\ indexes_to_create' = [indexes_to_create EXCEPT ![f] = MissingColumns(indexes)]
    /\ pc' = [pc EXCEPT ![f] = "create"]
    /\ UNCHANGED <<appointments, clients, indexes, enabled, removeList, keep,
                   readFrom, txDeleted, total_removed, fixes_applied, overlaps,
                   remaining_duplicates, exitCode, createFailed, runs, runLimit, crossVars, notesVars, otherVars, auditPc, issues, warnings, history>>

\* the entries the creation loop appends to fixes_applied: one per CREATE
\* INDEX that returned, in loop order
CreatedEntries(cols, n) ==
    [i \in 1..n |-> <<"Created index", IndexName(cols[i])>>]

\* The loop over indexes_to_create with its try/except, and the commit.  The
\* statements run in one transaction: the first n return, the next one raises
\* and so does every later one, each error caught and printed; the commit then
\* persists the indexes only if no statement raised.  A statement raises
\* "already exists" when the index was created since the check; the server
\* may also refuse CREATE INDEX CONCURRENTLY from the first statement on.
CreateOutcomes(cols, idx) ==
    LET clash == {i \in 1..Len(cols) : IndexName(cols[i]) \in idx}
        accepted == IF clash = {} THEN Len(cols)
                    ELSE (CHOOSE i \in clash : \A j \in clash : i <= j) - 1
    IN  {0, accepted}

CreateIndexes(f) ==
    /\ pc[f] = "create"
    /\ LET cols == indexes_to_create[f]
       IN  \E n \in CreateOutcomes(cols, indexes) :
            /\ indexes' = IF n = Len(cols)
                          THEN indexes \cup {IndexName(cols[i]) : i \in 1..n}
                          ELSE indexes
            /\ createFailed' = [createFailed EXCEPT ![f] = n < Len(cols)]
            /\ fixes_applied' = [fixes_applied EXCEPT ![f] =
                  IF cols = <<>>
                  THEN Append(@, <<"All performance indexes already exist">>)
                  ELSE @ \o CreatedEntries(cols, n)]
    /\ pc' = [pc EXCEPT ![f] = "analyze"]
    /\ UNCHANGED <<appointments, clients, enabled, removeList, keep, readFrom,
                   txDeleted, total_removed, overlaps, remaining_duplicates,
                   exitCode, indexes_to_create, runs, runLimit, crossVars, notesVars, otherVars, auditPc, issues, warnings, history>>

\* ----------------------------------------------- analyze_overlapping_appointments
\* the mutant of OverlapPairs that compares the ranges as closed intervals
OverlapPairsClosed(rows, cl) ==
    {<<a1.id, a2.id>> : <<a1, a2>> \in
        {p \in rows \X rows :
            /\ p[1].client_id = p[2].client_id
            /\ p[1].client_id \in cl
            /\ p[1].id < p[2].id
            /\ p[1].start_time <= p[2].end_time
            /\ p[1].end_time >= p[2].start_time}}

\* the join of the overlap query, before ORDER BY and LIMIT
OverlapPairs(rows, cl) ==
    {<<a1.id, a2.id>> : <<a1, a2>> \in
        {p \in rows \X rows :
            /\ p[1].client_id = p[2].client_id
            /\ p[1].client_id \in cl
            /\ p[1].id < p[2].id
            /\ p[1].start_time < p[2].end_time
            /\ p[1].end_time > p[2].start_time}}

\* LIMIT 10: all pairs when there are at most ten, else ten of them (the first
\* ten by client name, which the rows here do not carry)
Limited(pairs, n) ==
    IF Cardinality(pairs) <= n THEN {pairs}
    ELSE {S \in SUBSET pairs : Cardinality(S) = n}

\* the mutant of AnalyzeOverlaps that resolves each overlap by deleting the
\* later appointment of the pair
AnalyzeOverlapsAndFix(f) ==
    /\ pc[f] = "analyze"
    /\ \E listed \in Limited(OverlapPairs(appointments, clients), OverlapLimit) :
        /\ overlaps' = [overlaps EXCEPT ![f] = listed]
        /\ appointments' = {r \in appointments : \A p \in listed : r.id # p[2]}
        /\ fixes_applied' = [fixes_applied EXCEPT ![f] =
              Append(@, <<"Removed overlapping appointments", Cardinality(listed)>>)]
    /\ pc' = [pc EXCEPT ![f] = "report"]
    /\ UNCHANGED <<clients, indexes, enabled, removeList, keep,
                   readFrom, txDeleted, total_removed, remaining_duplicates,
                   exitCode, indexes_to_create, createFailed, runs, runLimit, crossVars, notesVars, otherVars,
                   auditPc, issues, warnings, history>>

AnalyzeOverlaps(f) ==
    /\ pc[f] = "analyze"
    /\ \E listed \in Limited(OverlapPairs(appointments, clients), OverlapLimit) :
        /\ overlaps' = [overlaps EXCEPT ![f] = listed]
        /\ fixes_applied' = [fixes_applied EXCEPT ![f] =
              IF listed # {}
              THEN Append(@, <<"Identified overlapping appointment pairs for manual review", Cardinality(listed)>>)
              ELSE Append(@, <<"No overlapping appointments found">>)]
    /\ pc' = [pc EXCEPT ![f] = "report"]
    /\ UNCHANGED <<appointments, clients, indexes, enabled, removeList, keep,
                   readFrom, txDeleted, total_removed, remaining_duplicates,
                   exitCode, indexes_to_create, createFailed, runs, runLimit, crossVars, notesVars, otherVars, auditPc, issues, warnings, history>>

\* ------------------------------------------------- generate_fix_report, main
\* The report counts the duplicate groups that remain and prints SUCCESS or
\* WARNING; run_all_fixes returns and main returns 0 either way.
ReportAndExit(f) ==
    /\ pc[f] = "report"
    /\ remaining_duplicates' = [remaining_duplicates EXCEPT ![f] =
                                   Cardinality(DuplicateKeys(appointments))]
    /\ pc' = [pc EXCEPT ![f] = "done"]
    /\ exitCode' = [exitCode EXCEPT ![f] = 0]
    /\ runs' = [runs EXCEPT ![f] = @ + 1]
    /\ history' = Append(history, RunRecord(f, 0, appointments, indexes, createFailed[f]))
    /\ UNCHANGED <<appointments, clients, indexes, enabled, removeList, keep,
                   readFrom, txDeleted, total_removed, fixes_applied, overlaps,
                   indexes_to_create, createFailed, runLimit, crossVars, notesVars, otherVars, auditPc, issues,
                   warnings>>

\* the fix script is started (again), once the audit has ended
StartFix(f) ==
    /\ pc[f] \in {"idle", "done", "failed"}
    /\ runs[f] < runLimit
    /\ auditPc \in {"off", "done"}
    /\ FreshFixer(f)
    /\ UNCHANGED <<appointments, clients, indexes, enabled, runs, runLimit, crossVars, notesVars, otherVars,
                   auditPc, issues, warnings, history>>

\* ------------------------------------------------ calendar_sync_audit: run_audit
\* the checks of run_audit in the order it calls them
AuditChecks ==
    <<"check_appointment_basics", "check_client_linkages",
      "check_google_calendar_integration", "check_duplicates",
      "check_orphaned_records", "check_appointment_timing",
      "check_client_name_matching", "analyze_sync_patterns",
      "check_database_performance", "analyze_calendar_coverage">>

\* where the audit continues after check c
AfterCheck(c) ==
    IF auditPlan = "single" THEN "done"
    ELSE LET i == CHOOSE j \in DOMAIN AuditChecks : AuditChecks[j] = c
         IN  IF i < Len(AuditChecks) THEN AuditChecks[i + 1] ELSE "generate_report"

\* -------------------------------- calendar_sync_audit: check_duplicate_appointments
\* GROUP BY a1.client_id of the self-join on overlapping ranges
ClientsWithOverlap(rows) ==
    {a1.client_id : <<a1, a2>> \in
        {p \in rows \X rows :
            /\ p[1].client_id = p[2].client_id
            /\ p[1].id # p[2].id
            /\ p[1].start_time < p[2].end_time
            /\ p[1].end_time > p[2].start_time}}

CheckDuplicateAppointments ==
    /\ auditPc = "check_duplicates"
    /\ LET time_duplicates == DuplicateKeys(appointments)
           overlapping == ClientsWithOverlap(appointments)
       IN  /\ issues' = IF time_duplicates # {}
                        THEN Append(issues, <<"WARNING", "potential duplicate appointments by time",
                                              Cardinality(time_duplicates)>>)
                        ELSE issues
           /\ warnings' = IF overlapping # {}
                          THEN Append(warnings, <<"clients have overlapping appointments",
                                                  Cardinality(overlapping)>>)
                          ELSE warnings
    /\ auditPc' = AfterCheck("check_duplicates")
    /\ UNCHANGED <<appointments, clients, indexes, enabled, pc, removeList, keep,
                   readFrom, txDeleted, total_removed, fixes_applied, overlaps,
                   remaining_duplicates, exitCode, indexes_to_create,
                   createFailed, runs, runLimit, crossVars, notesVars, otherVars, history>>

\* ------------------------------- process_comprehensive_july_notes: POST /api/appointments
\* The import script creates an appointment through the API for a client it
\* found there; the server stores it with a new id, the end time one session
\* after the start and created_at the current time.
CreateAppointment ==
    \E i \in ApptIds, c \in clients, t \in 1..MaxStart :
        /\ i \notin RowIds(appointments)
        /\ \A f \in Fixers : i \notin RowIds(readFrom[f])
        /\ appointments' = appointments \cup
              {[id |-> i, client_id |-> c, therapist_id |-> TherapistId,
                start_time |-> t, end_time |-> t + Duration, created_at |-> MaxCreated]}
        /\ UNCHANGED <<clients, indexes, enabled, pc, removeList, keep, readFrom,
                       txDeleted, total_removed, fixes_applied, overlaps,
                       remaining_duplicates, exitCode, indexes_to_create,
                       createFailed, runs, runLimit, crossVars, notesVars, otherVars, auditPc, issues, warnings,
                       history>>

\* ------------------- comprehensive_connectivity_audit: test_data_consistency_cross_layer
\* A time string is the record of its parts: date, separator, hour and
\* suffix; two strings are equal when all parts are.  The hour is the one the
\* string shows, in the zone its suffix names; no suffix means UTC.
Today == "2025-08-06"

Suffixes == {"", ".000Z", "Z", "+00:00", "+01:00"}

TimeStrings == [date : {Today}, sep : {"T", " "}, hour : 1..MaxHour, suffix : Suffixes]

\* hours east of UTC that a suffix names
Offset(suf) == IF suf = "+01:00" THEN 1 ELSE 0

\* the instant a time string denotes, in hours UTC
Instant(str) == str.hour - Offset(str.suffix)

\* datetime.isoformat() of the value the driver returns for start_time: a
\* naive datetime for a timestamp column, an aware one (UTC) for timestamptz
IsoFormat(dt) ==
    [date |-> Today, sep |-> "T", hour |-> dt.hour,
     suffix |-> IF dt.aware THEN "+00:00" ELSE ""]

\* str.replace(old, new) where old is a separator or a suffix
Replace(str, old, new) ==
    [str EXCEPT !.sep = IF @ = old THEN new ELSE @,
                !.suffix = IF @ = old THEN new ELSE @]

\* str.endswith('.000Z')
EndsWithMillisZ(str) == str.suffix = ".000Z"

\* ' ' in str
HasSpace(str) == str.sep = " "

\* api_time_normalized
ApiTimeNormalized(api_time) ==
    IF EndsWithMillisZ(api_time)
    THEN Replace(Replace(api_time, "T", " "), ".000Z", "")
    ELSE api_time

\* the two nested tests that decide whether a time mismatch is recorded
TimeMismatch(api_time, db_time) ==
    LET api_time_normalized == ApiTimeNormalized(api_time)
        db_time_with_t == IF HasSpace(db_time) THEN Replace(db_time, " ", "T") ELSE db_time
    IN  /\ api_time_normalized # db_time /\ db_time # api_time_normalized
        /\ api_time_normalized # db_time /\ api_time_normalized # db_time_with_t

\* next((a for a in api_appointments if a["id"] == id), None), as the set
\* holding the first match or nothing
FirstWithId(api, id) ==
    LET hits == {i \in DOMAIN api : api[i].id = id}
    IN  IF hits = {} THEN {} ELSE {api[CHOOSE i \in hits : \A j \in hits : i <= j]}

\* the entries one datastore appointment adds to consistency_issues
IssuesFor(d, api) ==
    LET found == FirstWithId(api, d.id)
    IN  IF found = {} THEN <<<<"in DB but missing from API", d.id>>>>
        ELSE LET a == CHOOSE x \in found : TRUE
             IN  (IF ~a.has_name THEN <<<<"missing client_name in API", d.id>>>>
                  ELSE IF a.client_name # d.client_name
                       THEN <<<<"client_name mismatch", d.id>>>>
                       ELSE <<>>)
                 \o (IF TimeMismatch(a.startTime, IsoFormat(d.start_time))
                     THEN <<<<"time mismatch", d.id>>>>
                     ELSE <<>>)

AllIssues(db, api) == Flatten([i \in DOMAIN db |-> IssuesFor(db[i], api)])

\* log_result: the entry appended for one test
LogEntry(test, passed, priority) == [test |-> test, passed |-> passed, priority |-> priority]

\* the client part of the test, which runs when the appointment part did
\* not return
ClientEntries ==
    IF apiClientStatus # 200 THEN <<>>
    ELSE IF db_clients # api_clients
         THEN <<LogEntry("Data Consistency - Client Count", FALSE, "medium")>>
         ELSE <<LogEntry("Data Consistency - Clients", TRUE, "medium")>>

TestDataConsistencyCrossLayer ==
    /\ crossPc = "start"
    /\ crossPc' = "done"
    /\ IF ~dbUp
       THEN \* psycopg2.connect raises: the except branch
            /\ audit_results' = Append(audit_results, LogEntry("Data Consistency Check", FALSE, "high"))
            /\ crossReturn' = "False"
            /\ UNCHANGED consistency_issues
       ELSE IF apiStatus = 200 /\ Len(db_appointments) # Len(api_appointments)
       THEN /\ audit_results' = Append(audit_results,
                                   LogEntry("Data Consistency - Appointment Count", FALSE, "high"))
            /\ crossReturn' = "False"
            /\ UNCHANGED consistency_issues
       ELSE IF apiStatus = 200 /\ AllIssues(db_appointments, api_appointments) # <<>>
       THEN /\ consistency_issues' = AllIssues(db_appointments, api_appointments)
            /\ audit_results' = Append(audit_results,
                                   LogEntry("Data Consistency - Appointment Details", FALSE, "high"))
            /\ crossReturn' = "False"
       ELSE /\ audit_results' = audit_results
                \o (IF apiStatus = 200
                    THEN <<LogEntry("Data Consistency - Appointments", TRUE, "high")>>
                    ELSE <<>>)
                \o ClientEntries
            /\ crossReturn' = "True"
            /\ UNCHANGED consistency_issues
    /\ UNCHANGED <<fixVars, notesVars, otherVars, dbUp, db_appointments, apiStatus,
                   api_appointments, db_clients, apiClientStatus, api_clients,
                   syncPc, issues_found, syncReturn>>

\* -------------------- automated_system_fixes: fix_appointment_time_synchronization
\* the appointments whose API start time differs, as a string, from the
\* isoformat of the datastore start time
SyncMismatches(db, api) ==
    {db[i].id : i \in {j \in DOMAIN db :
        \E a \in FirstWithId(api, db[j].id) : a.startTime # IsoFormat(db[j].start_time)}}

\* returns True, False, or None when the API did not answer 200
FixAppointmentTimeSynchronization ==
    /\ syncPc = "start"
    /\ syncPc' = "done"
    /\ IF ~dbUp
       THEN /\ syncReturn' = "False"
            /\ UNCHANGED issues_found
       ELSE IF apiStatus = 200
       THEN /\ issues_found' = SyncMismatches(db_appointments, api_appointments)
            /\ syncReturn' = IF issues_found' = {} THEN "True" ELSE "False"
       ELSE /\ syncReturn' = "None"
            /\ UNCHANGED issues_found
    /\ UNCHANGED <<fixVars, notesVars, otherVars, dbUp, db_appointments, apiStatus,
                   api_appointments, db_clients, apiClientStatus, api_clients,
                   crossPc, consistency_issues, audit_results, crossReturn>>

\* ------------------------------------ comprehensive_session_note_ai_processor
\* A note is created on the day of the appointments (day 0) or later, at one
\* of the ticks of the day.
NoText == "None"     \* NULL in the text columns ai_summary and tags

\* find_matching_appointment: the appointments of the client within seven
\* days of the note, nearest start time first, LIMIT 1; NULL when there is
\* none.  Appointments at the same distance come in any order.
MatchingAppointments(rows, client, day, tick) ==
    LET Abs(x) == IF x < 0 THEN -x ELSE x
        cand == {r \in rows : r.client_id = client /\ day <= Window}
        near == {r \in cand : \A o \in cand : Abs(r.start_time - tick) <= Abs(o.start_time - tick)}
    IN  IF cand = {} THEN {NULL} ELSE {r.id : r \in near}

\* WHERE ai_summary IS NULL OR tags IS NULL OR appointment_id IS NULL
NeedsProcessing(n) ==
    n.ai_summary = NoText \/ n.tags = NoText \/ n.appointment_id = NULL

\* ORDER BY created_at DESC
NotesNeedingProcessing(notes) ==
    LET ids == {i \in DOMAIN notes : NeedsProcessing(notes[i])}
        Later(a, b) == \/ notes[a].day > notes[b].day
                       \/ notes[a].day = notes[b].day /\ notes[a].tick > notes[b].tick
    IN  {s \in Perms(ids) : \A i, j \in DOMAIN s : i < j => ~Later(s[j], s[i])}

\* the dictionary built for a fetched row
NoteDict(notes, i) ==
    [id |-> i, client_id |-> notes[i].client_id, day |-> notes[i].day,
     tick |-> notes[i].tick, appointment_id |-> notes[i].appointment_id]

\* process_all_notes up to the loop; a failing query gives the empty list
GetNotesNeedingProcessing ==
    /\ notesPc = "start"
    /\ \E order \in NotesNeedingProcessing(session_notes) \cup {<<>>} :
        /\ notesTodo' = [i \in DOMAIN order |-> NoteDict(session_notes, order[i])]
        /\ notesPc' = IF order = <<>> THEN "done" ELSE "loop"
    /\ UNCHANGED <<fixVars, crossVars, otherVars, session_notes, processed_count, error_count>>

\* process_session_note for the next fetched note: the summary and tags of
\* the AI service, or of the fallback when the service gives none; the linked
\* appointment, or the matching one; the UPDATE, which may raise.
ProcessSessionNote ==
    /\ notesPc = "loop"
    /\ notesTodo # <<>>
    /\ LET note == Head(notesTodo) IN
       \E source \in {"ai", "fallback"}, updated \in BOOLEAN :
       \E appointment_id \in
            (IF note.appointment_id # NULL THEN {note.appointment_id}
             ELSE MatchingAppointments(appointments, note.client_id, note.day, note.tick)) :
          IF updated
          THEN /\ session_notes' = [session_notes EXCEPT ![note.id] =
                      [@ EXCEPT !.ai_summary = source, !.tags = source,
                                !.appointment_id = appointment_id]]
               /\ processed_count' = processed_count + 1
               /\ UNCHANGED error_count
          ELSE /\ error_count' = error_count + 1
               /\ UNCHANGED <<session_notes, processed_count>>
    /\ notesTodo' = Tail(notesTodo)
    /\ UNCHANGED <<fixVars, crossVars, otherVars, notesPc>>

\* the end of the loop: the summary is printed and the connection closed
FinishNotes ==
    /\ notesPc = "loop"
    /\ notesTodo = <<>>
    /\ notesPc' = "done"
    /\ UNCHANGED <<fixVars, crossVars, otherVars, session_notes, notesTodo, processed_count, error_count>>

\* ------------------------------------------------------------ specifications
FixerNext ==
    \/ \E f \in enabled : StartFix(f)
    \/ \E f \in enabled : SelectDuplicates(f)
    \/ \E f \in enabled : DeleteRow(f)
    \/ \E f \in enabled : CommitDeletes(f)
    \/ \E f \in enabled : FailDuringDelete(f)
    \/ \E f \in enabled : CheckIndexes(f)
    \/ \E f \in enabled : CreateIndexes(f)
    \/ \E f \in enabled : AnalyzeOverlaps(f)
    \/ \E f \in enabled : ReportAndExit(f)

\* the audit, then the fix script, run up to MaxRuns times one after the other
Next ==
    \/ CheckDuplicateAppointments
    \/ FixerNext

Spec == Init /\ [][Next]_vars

\* two fix scripts started at the same time on one datastore
InitConc ==
    /\ CrossOff
    /\ NotesOff
    /\ OtherOff
    /\ appointments \in Tables(ValidRows)
    /\ clients = Clients
    /\ indexes = {PrimaryKeyIndex}
    /\ InitFixers(Fixers, 1)
    /\ InitAudit("off")

SpecConc == InitConc /\ [][FixerNext]_vars

\* one fix script while the import script creates appointments
InitLive ==
    /\ CrossOff
    /\ NotesOff
    /\ OtherOff
    /\ appointments \in Tables(ValidRows)
    /\ clients = Clients
    /\ indexes = {PrimaryKeyIndex} \cup AllFixIndexes
    /\ InitFixers({1}, 1)
    /\ InitAudit("off")

NextLive ==
    \/ CreateAppointment
    \/ FixerNext

SpecLive == InitLive /\ [][NextLive]_vars

\* the cross-layer checks of the connectivity audit and of the system fixes,
\* on one answer of the datastore and one of the API
Names == {"Ann Lee", "ann lee "}

DbToday ==
    [id : 1..(MaxToday + 1), start_time : [hour : 1..MaxHour, aware : BOOLEAN],
     client_name : Names]

ApiToday ==
    [id : 1..(MaxToday + 1), startTime : TimeStrings, has_name : BOOLEAN,
     client_name : Names]

SeqsUpTo(S, n) == UNION {[1..k -> S] : k \in 0..n}

InitCross ==
    /\ appointments = {}
    /\ clients = Clients
    /\ indexes = {PrimaryKeyIndex}
    /\ InitFixers({}, 0)
    /\ InitAudit("off")
    /\ NotesOff
    /\ OtherOff
    /\ dbUp \in BOOLEAN
    /\ db_appointments \in SeqsUpTo(DbToday, MaxToday)
    /\ apiStatus \in {200, 500}
    /\ api_appointments \in SeqsUpTo({a \in ApiToday : ~a.has_name => a.client_name = "Ann Lee"}, MaxToday)
    /\ db_clients \in 0..1
    /\ apiClientStatus \in {200, 500}
    /\ api_clients \in 0..1
    /\ ~dbUp => (db_appointments = <<>> /\ db_clients = 0)
    /\ apiStatus # 200 => api_appointments = <<>>
    /\ apiClientStatus # 200 => api_clients = 0
    /\ crossPc = "start"
    /\ consistency_issues = <<>>
    /\ audit_results = <<>>
    /\ crossReturn = "None"
    /\ syncPc = "start"
    /\ issues_found = {}
    /\ syncReturn = "None"

NextCross ==
    \/ TestDataConsistencyCrossLayer
    \/ FixAppointmentTimeSynchronization

SpecCross == InitCross /\ [][NextCross]_vars

\* the session note processor on a datastore with appointments and notes
NoteRows ==
    [client_id : Clients, day : {0, Window + 1}, tick : 1..MaxStart,
     appointment_id : {NULL} \cup ApptIds,
     ai_summary : {NoText, "ai"}, tags : {NoText, "ai"}]

InitNotes ==
    /\ appointments \in Tables({r \in ValidRows : r.created_at = NULL})
    /\ clients = Clients
    /\ indexes = {PrimaryKeyIndex}
    /\ InitFixers({}, 0)
    /\ InitAudit("off")
    /\ CrossOff
    /\ OtherOff
    /\ session_notes \in SeqsUpTo(NoteRows, MaxNotes)
    /\ notesPc = "start"
    /\ notesTodo = <<>>
    /\ processed_count = 0
    /\ error_count = 0

NextNotes ==
    \/ GetNotesNeedingProcessing
    \/ ProcessSessionNote
    \/ FinishNotes

SpecNotes == InitNotes /\ [][NextNotes]_vars

\* ------------------------------------------------- ai_date_extraction_reviewer
ReviewDates == 1..MaxDate

\* validate_date
ValidateDate(date_str) ==
    IF date_str = BadDate THEN FALSE
    ELSE NowDate - PastWindow <= date_str /\ date_str <= NowDate + FutureWindow

\* what extract_service_date_with_ai returns: None when the call or the JSON
\* parsing raised, else the parsed object ("extracted_date" may be null, the
\* key "confidence" may be missing)
Confidences == {"high", "medium", "low", "missing"}

AiResults ==
    {[ok |-> FALSE, extracted_date |-> NULL, confidence |-> "missing"]} \cup
    [ok : {TRUE}, extracted_date : {NULL, BadDate} \cup ReviewDates,
     confidence : Confidences]

\* ai_result.get('confidence', 'low')
GetConfidence(ai_result) ==
    IF ai_result.confidence = "missing" THEN "low" ELSE ai_result.confidence

\* note['session_date'] or note['created_at']
CurrentDate(note) ==
    IF note.session_date # NULL THEN note.session_date ELSE note.created_at

\* the result dict of review_session_note_date; updated is the outcome of the
\* UPDATE statement, which is only executed when the three tests pass
ReviewResult(note, ai_result, updated) ==
    LET current_date == CurrentDate(note)
        base == [note_id |-> note.id, current_date |-> current_date,
                 ai_extracted_date |-> NULL, date_changed |-> FALSE,
                 confidence |-> "none", action_taken |-> "none"]
    IN  IF ai_result.ok /\ ai_result.extracted_date # NULL
        THEN LET found == [base EXCEPT !.ai_extracted_date = ai_result.extracted_date,
                                       !.confidence = GetConfidence(ai_result)]
             IN  IF /\ GetConfidence(ai_result) = "high"
                    /\ ai_result.extracted_date # current_date
                    /\ ValidateDate(ai_result.extracted_date)
                 THEN IF updated
                      THEN [found EXCEPT !.date_changed = TRUE,
                                         !.action_taken = "date_updated"]
                      ELSE [found EXCEPT !.action_taken = "update_failed"]
                 ELSE [found EXCEPT !.action_taken = "no_change_needed"]
        ELSE base

\* get_session_notes_for_review: every note, as a dict; the empty list when
\* the query raises
GetSessionNotesForReview ==
    /\ reviewPc = "start"
    /\ \/ reviewTodo' = [i \in DOMAIN note_dates |->
                           [id |-> i, session_date |-> note_dates[i].session_date,
                            created_at |-> note_dates[i].created_at]]
       \/ reviewTodo' = <<>>
    /\ reviewPc' = "loop"
    /\ UNCHANGED <<fixVars, crossVars, notesVars, auditRunVars, calendarVars, scoreVars, scriptVars, note_dates, review_results, date_counts>>

\* one iteration of the session note loop of review_all_notes:
\* review_session_note_date and the append of its result
ReviewSessionNoteDate ==
    /\ reviewPc = "loop"
    /\ reviewTodo # <<>>
    /\ \E ai_result \in AiResults, updated \in BOOLEAN :
         LET note == Head(reviewTodo)
             result == ReviewResult(note, ai_result, updated)
         IN  /\ review_results' = Append(review_results, result)
             /\ note_dates' =
                  IF result.date_changed
                  THEN [note_dates EXCEPT ![note.id].session_date = ai_result.extracted_date]
                  ELSE note_dates
             /\ date_counts' =
                  [date_counts EXCEPT
                     !.processed = @ + 1,
                     !.corrected = IF result.date_changed THEN @ + 1 ELSE @,
                     !.errors = IF result.action_taken = "update_failed" THEN @ + 1 ELSE @]
    /\ reviewTodo' = Tail(reviewTodo)
    /\ UNCHANGED <<fixVars, crossVars, notesVars, auditRunVars, calendarVars, scoreVars, scriptVars, reviewPc>>

\* the end of review_all_notes: the report and the results file
FinishReview ==
    /\ reviewPc = "loop"
    /\ reviewTodo = <<>>
    /\ reviewPc' = "done"
    /\ UNCHANGED <<fixVars, crossVars, notesVars, auditRunVars, calendarVars, scoreVars, scriptVars, note_dates, reviewTodo,
                   review_results, date_counts>>

NoteDateRows == [session_date : {NULL} \cup ReviewDates, created_at : ReviewDates]

InitReview ==
    /\ appointments = {}
    /\ clients = Clients
    /\ indexes = {PrimaryKeyIndex}
    /\ InitFixers({}, 0)
    /\ InitAudit("off")
    /\ CrossOff
    /\ NotesOff
    /\ AuditRunOff
    /\ CalendarOff
    /\ ScoreOff
    /\ ScriptsOff
    /\ note_dates \in SeqsUpTo(NoteDateRows, MaxReview)
    /\ reviewPc = "start"
    /\ reviewTodo = <<>>
    /\ review_results = <<>>
    /\ date_counts = [processed |-> 0, corrected |-> 0, errors |-> 0]

NextReview ==
    \/ GetSessionNotesForReview
    \/ ReviewSessionNoteDate
    \/ FinishReview

SpecReview == InitReview /\ [][NextReview]_vars

\* ------------------------------------------- calendar_sync_audit: the whole run
\* rows of table users: the therapist
Users == {TherapistId}

\* the performance check looks for two of the indexed columns only
PerformanceColumns(idx) ==
    {c \in UNION {IndexDefColumns(n) : n \in idx} : c \in {"client_id", "google_event_id"}}

\* rows WHERE google_event_id IS NOT NULL AND google_event_id != ''
GoogleSynced(rows) == {r \in rows : r.google_event_id # NULL}

\* GROUP BY google_event_id HAVING COUNT(*) > 1
DuplicateEvents(rows) ==
    {g \in {r.google_event_id : r \in GoogleSynced(rows)} :
        Cardinality({r \in rows : r.google_event_id = g}) > 1}

\* the issue lines of check_google_calendar_integration; the duplicated ids
\* come in any order and the first ShownEvents of them get a line each
GoogleIssues(rows) ==
    IF DuplicateEvents(rows) = {} THEN {<<>>}
    ELSE {<<<<"CRITICAL", "Google event IDs are duplicated", Cardinality(DuplicateEvents(rows))>>>>
          \o [i \in 1..(IF Len(p) < ShownEvents THEN Len(p) ELSE ShownEvents) |->
                <<"", "Event ID appears", p[i],
                  Cardinality({r \in rows : r.google_event_id = p[i]})>>]
          : p \in Perms(DuplicateEvents(rows))}

\* what one check of the audit appends to self.issues and self.warnings and
\* writes to self.stats: the set of its possible findings
CheckFindings(check, rows, cl, idx, st) ==
    LET Found(is, ws, s) == [issues |-> is, warnings |-> ws, stats |-> s]
        Count(S) == Cardinality(S)
        If(n, entry) == IF n > 0 THEN <<entry>> ELSE <<>>
    IN
    CASE check = "check_appointment_basics" ->
           LET missing_data == Count({r \in rows : r.client_id = NULL \/ r.therapist_id = NULL
                                                   \/ r.start_time = NULL \/ r.end_time = NULL})
               invalid_times == Count({r \in rows : r.start_time >= r.end_time})
           IN  {Found(If(missing_data, <<"CRITICAL", "appointments have missing core data", missing_data>>)
                      \o If(invalid_times, <<"CRITICAL", "appointments have invalid time ranges", invalid_times>>),
                      <<>>, [st EXCEPT !.total_appointments = Count(rows)])}
      [] check = "check_client_linkages" ->
           LET clients_no_appointments == Count({c \in cl : \A r \in rows : r.client_id # c})
           IN  {Found(<<>>,
                      IF clients_no_appointments > ManyClients
                      THEN <<<<"clients have no appointments", clients_no_appointments>>>>
                      ELSE <<>>,
                      st)}
      [] check = "check_google_calendar_integration" ->
           {Found(is, <<>>, [st EXCEPT !.google_synced_appointments = Count(GoogleSynced(rows)),
                                       !.unsynced_appointments = Count(rows \ GoogleSynced(rows))])
            : is \in GoogleIssues(rows)}
      [] check = "check_orphaned_records" ->
           LET orphaned_appointments == Count({r \in rows : r.client_id \notin cl})
               orphaned_therapist_refs == Count({r \in rows : r.therapist_id \notin Users})
           IN  {Found(If(orphaned_appointments,
                         <<"CRITICAL", "appointments reference non-existent clients", orphaned_appointments>>)
                      \o If(orphaned_therapist_refs,
                            <<"CRITICAL", "appointments reference non-existent therapists", orphaned_therapist_refs>>),
                      <<>>, st)}
      [] check = "check_appointment_timing" ->
           LET unusual_durations == {r.end_time - r.start_time : r \in rows} \ {Duration}
           IN  {Found(<<>>,
                      IF unusual_durations # {}
                      THEN <<<<"unusual appointment durations", Count(unusual_durations)>>>>
                      ELSE <<>>,
                      st)}
      [] check = "check_database_performance" ->
           {Found(IF "client_id" \notin PerformanceColumns(idx)
                  THEN <<<<"PERFORMANCE", "Missing index on appointments.client_id", 0>>>>
                  ELSE <<>>,
                  IF "google_event_id" \notin PerformanceColumns(idx)
                  THEN <<<<"PERFORMANCE: Consider index on appointments.google_event_id", 0>>>>
                  ELSE <<>>,
                  st)}
      [] OTHER ->
           \* check_client_name_matching compares client names, which the rows
           \* here do not carry; analyze_sync_patterns and
           \* analyze_calendar_coverage write date statistics only
           {Found(<<>>, <<>>, st)}

\* one of the checks of run_audit other than check_duplicate_appointments
RunAuditCheck ==
    /\ auditPlan = "full"
    /\ auditPc \in SeqToSet(AuditChecks) \ {"check_duplicates"}
    /\ \E f \in CheckFindings(auditPc, appointments, clients, indexes, stats) :
         /\ issues' = issues \o f.issues
         /\ warnings' = warnings \o f.warnings
         /\ stats' = f.stats
    /\ auditPc' = AfterCheck(auditPc)
    /\ UNCHANGED <<appointments, clients, indexes, enabled, pc, removeList, keep,
                   readFrom, txDeleted, total_removed, fixes_applied, overlaps,
                   remaining_duplicates, exitCode, indexes_to_create,
                   createFailed, runs, runLimit, crossVars, notesVars, reviewVars, calendarVars, scoreVars, scriptVars,
                   history, auditPlan, audit_report, auditExit>>

\* a query of the current check raises (the connection is lost, a column is
\* missing): no check catches it, run_audit is left and main returns 2
AuditCheckRaises ==
    /\ auditPlan = "full"
    /\ auditPc \in SeqToSet(AuditChecks)
    /\ auditPc' = "failed"
    /\ auditExit' = 2
    /\ UNCHANGED <<crossVars, notesVars, reviewVars, calendarVars, scoreVars, scriptVars>>
    /\ UNCHANGED <<appointments, clients, indexes, enabled, pc, removeList, keep,
                   readFrom, txDeleted, total_removed, fixes_applied, overlaps,
                   remaining_duplicates, exitCode, indexes_to_create,
                   createFailed, runs, runLimit, issues, warnings, history,
                   auditPlan, stats, audit_report>>

\* the label in front of an issue line; a warning line has none
Label(entry) == IF Len(entry) = 2 THEN "" ELSE entry[1]

\* the wording of an issue line or a warning line
Wording(entry) == IF Len(entry) = 2 THEN entry[1] ELSE entry[2]

\* `word in issue`, resp. `word in issue.lower()`, for the words suggest_fixes
\* looks for and the lines the checks write: none of the lines holds the
\* word "orphaned"
Contains(entry, word) ==
    CASE word = "CRITICAL"    -> Label(entry) = "CRITICAL"
      [] word = "PERFORMANCE" ->
           \/ Label(entry) = "PERFORMANCE"
           \/ Wording(entry) = "PERFORMANCE: Consider index on appointments.google_event_id"
      [] word = "duplicate"   ->
           Wording(entry) \in {"Google event IDs are duplicated",
                               "potential duplicate appointments by time"}
      [] word = "missing core data" ->
           Wording(entry) = "appointments have missing core data"
      [] word = "orphaned"    -> Wording(entry) \in {}

FixItem(priority, issue, fix) == [priority |-> priority, issue |-> issue, fix |-> fix]

\* the first loop of suggest_fixes: the fixes of the critical issues
CriticalFixes(is) ==
    Flatten([i \in DOMAIN is |->
        IF ~Contains(is[i], "CRITICAL") THEN <<>>
        ELSE IF Contains(is[i], "duplicate") THEN <<FixItem(1, is[i], "deduplicate")>>
        ELSE IF Contains(is[i], "missing core data") THEN <<FixItem(1, is[i], "fix NULL fields")>>
        ELSE IF Contains(is[i], "orphaned") THEN <<FixItem(1, is[i], "clean up orphaned")>>
        ELSE <<>>])

\* the second loop of suggest_fixes: the fixes of the performance issues
PerformanceFixes(entries) ==
    Flatten([i \in DOMAIN entries |->
        IF Contains(entries[i], "PERFORMANCE")
        THEN <<FixItem(2, entries[i], "add indexes")>> ELSE <<>>])

\* the sort with the higher priority number first
SortDescending(items) ==
    SelectSeq(items, LAMBDA x : x.priority = 2) \o SelectSeq(items, LAMBDA x : x.priority = 1)

\* fix_priority.sort(key=lambda x: x['priority']): a stable sort on the
\* priorities 1 and 2
SortByPriority(items) ==
    SelectSeq(items, LAMBDA x : x.priority = 1) \o SelectSeq(items, LAMBDA x : x.priority = 2)

\* the list suggest_fixes prints
SuggestedFixes(is, ws) ==
    IF is = <<>> /\ ws = <<>> THEN <<>>
    ELSE SortByPriority(CriticalFixes(is) \o PerformanceFixes(is \o ws))

\* generate_report prints the issues and the warnings
GenerateReport ==
    /\ auditPc = "generate_report"
    /\ audit_report' = [audit_report EXCEPT !.printed = TRUE, !.issues = issues,
                                            !.warnings = warnings]
    /\ auditPc' = "suggest_fixes"
    /\ UNCHANGED <<appointments, clients, indexes, enabled, pc, removeList, keep,
                   readFrom, txDeleted, total_removed, fixes_applied, overlaps,
                   remaining_duplicates, exitCode, indexes_to_create,
                   createFailed, runs, runLimit, issues, warnings, history,
                   crossVars, notesVars, reviewVars, calendarVars, scoreVars, scriptVars, auditPlan, stats, auditExit>>

\* suggest_fixes prints the suggested fixes in the order of their priority
SuggestFixes ==
    /\ auditPc = "suggest_fixes"
    /\ audit_report' = [audit_report EXCEPT !.fix_priority = SuggestedFixes(issues, warnings)]
    /\ auditPc' = "main"
    /\ UNCHANGED <<appointments, clients, indexes, enabled, pc, removeList, keep,
                   readFrom, txDeleted, total_removed, fixes_applied, overlaps,
                   remaining_duplicates, exitCode, indexes_to_create,
                   createFailed, runs, runLimit, issues, warnings, history,
                   crossVars, notesVars, reviewVars, calendarVars, scoreVars, scriptVars, auditPlan, stats, auditExit>>

\* main after run_audit: the results file and the exit code
AuditMain ==
    /\ auditPc = "main"
    /\ audit_report' = [audit_report EXCEPT !.saved = TRUE]
    /\ auditExit' = IF issues # <<>> THEN 1 ELSE 0
    /\ auditPc' = "done"
    /\ UNCHANGED <<appointments, clients, indexes, enabled, pc, removeList, keep,
                   readFrom, txDeleted, total_removed, fixes_applied, overlaps,
                   remaining_duplicates, exitCode, indexes_to_create,
                   createFailed, runs, runLimit, issues, warnings, history,
                   crossVars, notesVars, reviewVars, calendarVars, scoreVars, scriptVars, auditPlan, stats>>

\* rows as the calendar sync wrote them: with the google event id, and with
\* end times the datastore does not constrain
AuditRows ==
    [id : ApptIds, client_id : Clients, therapist_id : {TherapistId},
     start_time : 1..(MaxStart - 1), end_time : 2..MaxStart,
     created_at : {NULL}, google_event_id : {NULL} \cup (1..MaxEvents)]

InitAuditRun ==
    /\ appointments \in Tables(AuditRows)
    /\ clients \in {Clients, Clients \ {MaxClients}}
    /\ indexes \in {{PrimaryKeyIndex}, {PrimaryKeyIndex} \cup AllFixIndexes}
    /\ InitFixers({}, 0)
    /\ InitAudit(AuditChecks[1])
    /\ CrossOff
    /\ NotesOff
    /\ ReviewOff
    /\ CalendarOff
    /\ ScoreOff
    /\ ScriptsOff
    /\ auditPlan = "full"
    /\ stats = NoStats
    /\ audit_report = NoReport
    /\ auditExit = -1

NextAuditRun ==
    \/ RunAuditCheck
    \/ CheckDuplicateAppointments
    \/ AuditCheckRaises
    \/ GenerateReport
    \/ SuggestFixes
    \/ AuditMain

SpecAudit == InitAuditRun /\ [][NextAuditRun]_vars

\* the audit, then the fix script it recommends, on the same datastore
InitAuditFix ==
    /\ appointments \in Tables(AuditRows)
    /\ clients = Clients
    /\ indexes = {PrimaryKeyIndex} \cup AllFixIndexes
    /\ InitFixers({1}, 1)
    /\ InitAudit(AuditChecks[1])
    /\ CrossOff
    /\ NotesOff
    /\ ReviewOff
    /\ CalendarOff
    /\ ScoreOff
    /\ ScriptsOff
    /\ auditPlan = "full"
    /\ stats = NoStats
    /\ audit_report = NoReport
    /\ auditExit = -1

NextAuditFix ==
    \/ NextAuditRun
    \/ FixerNext

SpecAuditFix == InitAuditFix /\ [][NextAuditFix]_vars

\* ------------------- comprehensive_connectivity_audit: test_google_calendar_integration
\* an event of the provider: the client names its summary contains and the
\* hour at which it starts
CalendarEvents == [mentions : SUBSET Names, hour : 1..MaxHour]

\* the mutant of FoundInCalendar that compares the whole summary with the name
FoundInCalendarExact(client_name, evs) ==
    \E i \in DOMAIN evs : evs[i].mentions = {client_name}

\* any(client_name in event.get("summary", "") for event in events)
FoundInCalendar(client_name, evs) ==
    \E i \in DOMAIN evs : client_name \in evs[i].mentions

\* the names appended to sync_issues, in the order of the datastore rows
SyncIssues(db, evs) ==
    LET missing == SelectSeq(db, LAMBDA d : ~FoundInCalendar(d.client_name, evs))
    IN  [i \in DOMAIN missing |-> missing[i].client_name]

\* the entries logged up to the events request, and whether the test goes on
CalendarEntries ==
    IF calendarStatus # 200
    THEN [log |-> <<LogEntry("Google Calendar - Connectivity", FALSE, "high")>>, on |-> FALSE]
    ELSE IF calendars = "empty"
    THEN [log |-> <<LogEntry("Google Calendar - Empty Response", FALSE, "high")>>, on |-> FALSE]
    ELSE IF calendars = "badjson"
    THEN [log |-> <<LogEntry("Google Calendar - JSON Parse", FALSE, "high")>>, on |-> FALSE]
    ELSE IF calendars = "nolist"
    THEN [log |-> <<LogEntry("Google Calendar - Calendars", FALSE, "high")>>, on |-> FALSE]
    ELSE [log |-> <<LogEntry("Google Calendar - Simple Practice Calendar",
                             calendars = "simple_practice", "medium")>>,
          on |-> TRUE]

TestGoogleCalendarIntegration ==
    /\ calPc = "start"
    /\ calPc' = "done"
    /\ IF ~CalendarEntries.on
       THEN /\ audit_results' = audit_results \o CalendarEntries.log
            /\ calReturn' = "False"
            /\ UNCHANGED sync_issues
       ELSE IF eventsStatus # 200
       THEN /\ audit_results' = audit_results \o CalendarEntries.log
                \o <<LogEntry("Google Calendar - Today's Events", FALSE, "high")>>
            /\ calReturn' = "False"
            /\ UNCHANGED sync_issues
       ELSE IF ~events.json
       THEN /\ audit_results' = audit_results \o CalendarEntries.log
                \o <<LogEntry("Google Calendar - Events JSON Parse", FALSE, "high")>>
            /\ calReturn' = "False"
            /\ UNCHANGED sync_issues
       ELSE IF ~dbUp
       THEN \* psycopg2.connect raises: the except branch
            /\ audit_results' = audit_results \o CalendarEntries.log
                \o <<LogEntry("Google Calendar - Today's Events", TRUE, "high"),
                     LogEntry("Google Calendar Integration", FALSE, "high")>>
            /\ calReturn' = "False"
            /\ UNCHANGED sync_issues
       ELSE /\ sync_issues' = SyncIssues(db_appointments, events.list)
            /\ audit_results' = audit_results \o CalendarEntries.log
                \o <<LogEntry("Google Calendar - Today's Events", TRUE, "high"),
                     LogEntry("Google Calendar - Appointment Sync",
                              SyncIssues(db_appointments, events.list) = <<>>, "medium")>>
            /\ calReturn' = "True"
    /\ UNCHANGED <<fixVars, notesVars, reviewVars, auditRunVars, scoreVars, scriptVars, dbUp, db_appointments,
                   apiStatus, api_appointments, db_clients, apiClientStatus, api_clients,
                   crossPc, consistency_issues, crossReturn, syncPc, issues_found,
                   syncReturn, calendarStatus, calendars, eventsStatus, events>>

\* the connectivity audit's calendar test on today's appointments
InitCalendar ==
    /\ appointments = {}
    /\ clients = Clients
    /\ indexes = {PrimaryKeyIndex}
    /\ InitFixers({}, 0)
    /\ InitAudit("off")
    /\ NotesOff
    /\ ReviewOff
    /\ AuditRunOff
    /\ ScoreOff
    /\ ScriptsOff
    /\ dbUp \in BOOLEAN
    /\ db_appointments \in SeqsUpTo(DbToday, MaxToday)
    /\ apiStatus = 200
    /\ api_appointments = <<>>
    /\ db_clients = 0
    /\ apiClientStatus = 200
    /\ api_clients = 0
    /\ ~dbUp => db_appointments = <<>>
    /\ crossPc = "off"
    /\ consistency_issues = <<>>
    /\ audit_results = <<>>
    /\ crossReturn = "None"
    /\ syncPc = "off"
    /\ issues_found = {}
    /\ syncReturn = "None"
    /\ calendarStatus \in {200, 500}
    /\ calendars \in {"empty", "badjson", "nolist", "other", "simple_practice"}
    /\ eventsStatus \in {200, 500}
    /\ events \in [json : BOOLEAN, list : SeqsUpTo(CalendarEvents, MaxCalEvents)]
    /\ ~events.json => events.list = <<>>
    /\ calPc = "start"
    /\ sync_issues = <<>>
    /\ calReturn = "None"

NextCalendar ==
    \/ TestGoogleCalendarIntegration

SpecCalendar == InitCalendar /\ [][NextCalendar]_vars

\* ------------------------------------- comprehensive_application_audit: the score
\* the severities the checks of the application audit pass to log_issue
Severities == {"CRITICAL", "HIGH", "MEDIUM", "LOW"}

\* log_issue, called by a check of the application audit
LogIssue(severity) ==
    /\ scoreScript = "application"
    /\ scorePc = "checks"
    /\ Len(critical_issues) + Len(high_issues) + Len(app_warnings) < MaxIssues
    /\ IF severity = "CRITICAL"
       THEN /\ critical_issues' = Append(critical_issues, severity)
            /\ UNCHANGED <<high_issues, app_warnings>>
       ELSE IF severity = "HIGH"
       THEN /\ high_issues' = Append(high_issues, severity)
            /\ UNCHANGED <<critical_issues, app_warnings>>
       ELSE /\ app_warnings' = Append(app_warnings, severity)
            /\ UNCHANGED <<critical_issues, high_issues>>
    /\ UNCHANGED <<fixVars, crossVars, notesVars, reviewVars, auditRunVars, calendarVars, scriptVars,
                   scoreScript, scorePc, audit_score, report, score>>

\* calculate_audit_score
CalculateAuditScore(critical, high, warns) ==
    LET total_penalty == Len(critical) * critical_weight + Len(high) * high_weight
                         + Len(warns) * warning_weight
    IN  IF BaseScore - total_penalty > 0 THEN BaseScore - total_penalty ELSE 0

\* the end of the application audit's run_comprehensive_audit: the results
\* are compiled
CompileResults ==
    /\ scoreScript = "application"
    /\ scorePc = "checks"
    /\ audit_score' = CalculateAuditScore(critical_issues, high_issues, app_warnings)
    /\ scorePc' = "done"
    /\ UNCHANGED <<fixVars, crossVars, notesVars, reviewVars, auditRunVars, calendarVars, scriptVars,
                   scoreScript, critical_issues, high_issues, app_warnings, report, score>>

\* ------------------------------------------------ calendar_audit_script: the score
\* the severities the checks of the calendar audit pass to add_issue
ReportSeverities == {"CRITICAL", "HIGH", "MEDIUM"}

ReportSize ==
    Len(report.critical_issues) + Len(report.issues) + Len(report.warnings)
    + Len(report.passed_checks)

\* CalendarAuditReport.add_issue
AddIssue(severity) ==
    /\ scoreScript = "calendar"
    /\ scorePc = "checks"
    /\ ReportSize < MaxEntries
    /\ report' = IF severity = "CRITICAL"
                 THEN [report EXCEPT !.critical_issues = Append(@, severity)]
                 ELSE [report EXCEPT !.issues = Append(@, severity)]
    /\ UNCHANGED <<fixVars, crossVars, notesVars, reviewVars, auditRunVars, calendarVars, scriptVars,
                   scoreScript, scorePc, critical_issues, high_issues, app_warnings,
                   audit_score, score>>

\* CalendarAuditReport.add_warning and add_passed
AddWarningOrPassed(list) ==
    /\ scoreScript = "calendar"
    /\ scorePc = "checks"
    /\ ReportSize < MaxEntries
    /\ report' = IF list = "warnings"
                 THEN [report EXCEPT !.warnings = Append(@, "WARNING")]
                 ELSE [report EXCEPT !.passed_checks = Append(@, "PASSED")]
    /\ UNCHANGED <<fixVars, crossVars, notesVars, reviewVars, auditRunVars, calendarVars, scriptVars,
                   scoreScript, scorePc, critical_issues, high_issues, app_warnings,
                   audit_score, score>>

\* the score of CalendarAuditor.generate_report: passed checks over all
\* entries, times 100, kept as a fraction; no score without entries
ReportScore(r) ==
    LET total_issues == Len(r.critical_issues) + Len(r.issues)
        total_checks == Len(r.passed_checks) + total_issues + Len(r.warnings)
    IN  IF total_checks > 0
        THEN [num |-> Len(r.passed_checks) * BaseScore, den |-> total_checks]
        ELSE NoScore

\* CalendarAuditor.generate_report
GenerateCalendarReport ==
    /\ scoreScript = "calendar"
    /\ scorePc = "checks"
    /\ score' = ReportScore(report)
    /\ scorePc' = "done"
    /\ UNCHANGED <<fixVars, crossVars, notesVars, reviewVars, auditRunVars, calendarVars, scriptVars,
                   scoreScript, critical_issues, high_issues, app_warnings, audit_score,
                   report>>

\* one of the two scoring audits runs
InitScore ==
    /\ appointments = {}
    /\ clients = Clients
    /\ indexes = {PrimaryKeyIndex}
    /\ InitFixers({}, 0)
    /\ InitAudit("off")
    /\ CrossOff
    /\ NotesOff
    /\ ReviewOff
    /\ AuditRunOff
    /\ CalendarOff
    /\ ScriptsOff
    /\ scoreScript \in {"application", "calendar"}
    /\ scorePc = "checks"
    /\ critical_issues = <<>>
    /\ high_issues = <<>>
    /\ app_warnings = <<>>
    /\ audit_score = -1
    /\ report = EmptyReport
    /\ score = NoScore

NextScore ==
    \/ \E severity \in Severities : LogIssue(severity)
    \/ CompileResults
    \/ \E severity \in ReportSeverities : AddIssue(severity)
    \/ \E list \in {"warnings", "passed_checks"} : AddWarningOrPassed(list)
    \/ GenerateCalendarReport

SpecScore == InitScore /\ [][NextScore]_vars

\* ------------------ automated_system_fixes (main) and comprehensive_connectivity_audit
\* A step is a test of a script, or one of its calls to the calendar provider:
\* the source it needs, whether the call carries a timeout, and how many
\* steps of the same test a failed call makes the test skip.
Step(test, source, timeout, skip) ==
    [test |-> test, source |-> source, timeout |-> timeout, skip |-> skip]

\* the three fixes of automated_system_fixes.py: requests.get without timeout
FixSteps ==
    << Step("fix_dashboard_stats_api", "api", FALSE, 0),
       Step("fix_appointment_time_synchronization", "datastore and api", FALSE, 0),
       Step("fix_google_calendar_integration /api/oauth/calendar", "provider", FALSE, 1),
       Step("fix_google_calendar_integration /api/oauth/events/today", "provider", FALSE, 0) >>

\* the tests of run_comprehensive_audit in their order; every call to an
\* endpoint of the calendar provider carries a timeout
ConnectivitySteps ==
    << Step("test_database_connectivity", "datastore", FALSE, 0),
       Step("test_frontend_backend_connectivity", "api", TRUE, 0),
       Step("test_api_endpoints_comprehensive", "api", TRUE, 0),
       Step("test_api_endpoints_comprehensive /api/oauth/calendar", "provider", TRUE, 0),
       Step("test_api_endpoints_comprehensive /api/oauth/events/today", "provider", TRUE, 0),
       Step("test_data_consistency_cross_layer", "datastore and api", FALSE, 0),
       Step("test_google_calendar_integration /api/oauth/calendar", "provider", TRUE, 1),
       Step("test_google_calendar_integration /api/oauth/events/today", "provider", TRUE, 0),
       Step("test_ai_services_integration", "api", TRUE, 0),
       Step("test_performance_benchmarks", "api", TRUE, 0) >>

\* the fixes end with subprocess.run(["python", "comprehensive_connectivity_audit.py"])
PipeSteps(script) ==
    IF script = "fixes" THEN FixSteps \o ConnectivitySteps ELSE ConnectivitySteps

PipeRunning == pipeScript # "none" /\ pipePc \in DOMAIN PipeSteps(pipeScript)

CurrentStep == PipeSteps(pipeScript)[pipePc]

Result(test, passed) == [test |-> test, passed |-> passed]

\* a test that reads the datastore only
DatastoreCheck ==
    /\ PipeRunning
    /\ CurrentStep.source = "datastore"
    /\ pipeLog' = Append(pipeLog, Result(CurrentStep.test, pipeDb))
    /\ pipePc' = pipePc + 1
    /\ UNCHANGED <<fixVars, crossVars, notesVars, reviewVars, auditRunVars, calendarVars,
                   scoreVars, runVars, pipeScript, provider, pipeDb>>

\* a test that calls the API layer of the application, which answers with
\* some status, and may read the datastore as well
ApiCheck ==
    /\ PipeRunning
    /\ CurrentStep.source \in {"api", "datastore and api"}
    /\ \E status \in {200, 500} :
         pipeLog' = Append(pipeLog,
                           Result(CurrentStep.test,
                                  status = 200 /\ (CurrentStep.source = "api" \/ pipeDb)))
    /\ pipePc' = pipePc + 1
    /\ UNCHANGED <<fixVars, crossVars, notesVars, reviewVars, auditRunVars, calendarVars,
                   scoreVars, runVars, pipeScript, provider, pipeDb>>

\* requests.get of an endpoint of the calendar provider returns or raises:
\* the provider answered or refused
ProviderCall ==
    /\ PipeRunning
    /\ CurrentStep.source = "provider"
    /\ provider # "hangs"
    /\ pipeLog' = Append(pipeLog, Result(CurrentStep.test, provider = "answers"))
    /\ pipePc' = IF provider = "answers" THEN pipePc + 1 ELSE pipePc + 1 + CurrentStep.skip
    /\ UNCHANGED <<fixVars, crossVars, notesVars, reviewVars, auditRunVars, calendarVars,
                   scoreVars, runVars, pipeScript, provider, pipeDb>>

\* requests.get(..., timeout=...) raises requests.exceptions.Timeout while the
\* provider does not answer; a call without timeout waits on
ProviderCallTimesOut ==
    /\ PipeRunning
    /\ CurrentStep.source = "provider"
    /\ provider = "hangs"
    /\ CurrentStep.timeout
    /\ pipeLog' = Append(pipeLog, Result(CurrentStep.test, FALSE))
    /\ pipePc' = pipePc + 1 + CurrentStep.skip
    /\ UNCHANGED <<fixVars, crossVars, notesVars, reviewVars, auditRunVars, calendarVars,
                   scoreVars, runVars, pipeScript, provider, pipeDb>>

InitPipe ==
    /\ appointments = {}
    /\ clients = Clients
    /\ indexes = {PrimaryKeyIndex}
    /\ InitFixers({}, 0)
    /\ InitAudit("off")
    /\ CrossOff
    /\ NotesOff
    /\ ReviewOff
    /\ AuditRunOff
    /\ CalendarOff
    /\ ScoreOff
    /\ RunFixesOff
    /\ pipeScript \in {"fixes", "audit"}
    /\ pipePc = 1
    /\ provider \in {"answers", "fails", "hangs"}
    /\ pipeDb \in BOOLEAN
    /\ pipeLog = <<>>

NextPipe ==
    \/ DatastoreCheck
    \/ ApiCheck
    \/ ProviderCall
    \/ ProviderCallTimesOut

\* the scripts are sequential programs: a step that can be taken is taken
SpecPipe == InitPipe /\ [][NextPipe]_vars /\ WF_vars(NextPipe)

\* ----------------------- the duplicate repair and the calendar test on one datastore
\* the row of today the calendar test reads for an appointment
TodayRow(a, name, time) == [id |-> a.id, start_time |-> time, client_name |-> name]

\* Two appointments a and b of one client at one time, a created first; the
\* calendar holds one event, at the time of a and with the client's name in
\* its summary.  The audit's duplicate check and the calendar test run on
\* this datastore, then the fix script does.
InitMirror ==
    /\ \E a, b \in ValidRows :
         /\ a.id # b.id
         /\ Key(a) = Key(b)
         /\ a.created_at = 1
         /\ b.created_at = 2
         /\ appointments = {a, b}
         /\ \E name \in Names, time \in [hour : 1..MaxHour, aware : BOOLEAN] :
              /\ db_appointments \in {<<TodayRow(a, name, time), TodayRow(b, name, time)>>,
                                      <<TodayRow(b, name, time), TodayRow(a, name, time)>>}
              /\ \E e \in CalendarEvents :
                   /\ name \in e.mentions
                   /\ e.hour = time.hour
                   /\ events = [json |-> TRUE, list |-> <<e>>]
    /\ clients = Clients
    /\ indexes = {PrimaryKeyIndex}
    /\ InitFixers({1}, 1)
    /\ InitAudit("check_duplicates")
    /\ NotesOff
    /\ ReviewOff
    /\ AuditRunOff
    /\ ScoreOff
    /\ ScriptsOff
    /\ dbUp = TRUE
    /\ apiStatus = 200
    /\ api_appointments = <<>>
    /\ db_clients = 0
    /\ apiClientStatus = 200
    /\ api_clients = 0
    /\ crossPc = "off"
    /\ consistency_issues = <<>>
    /\ audit_results = <<>>
    /\ crossReturn = "None"
    /\ syncPc = "off"
    /\ issues_found = {}
    /\ syncReturn = "None"
    /\ calendarStatus = 200
    /\ calendars \in {"other", "simple_practice"}
    /\ eventsStatus = 200
    /\ calPc = "start"
    /\ sync_issues = <<>>
    /\ calReturn = "None"

NextMirror ==
    \/ CheckDuplicateAppointments
    \/ (pc[1] = "idle" /\ TestGoogleCalendarIntegration)
    \/ (calPc = "done" /\ FixerNext)

SpecMirror == InitMirror /\ [][NextMirror]_vars

\* ------------------------------------------------------------ audit_fix_script
\* identify_issues gives every issue one of three priorities.  Of its
\* categories two are taken: one whose fix is chosen by the category alone,
\* and type_safety, where fix_issue also looks for a wording in the
\* description.
Priorities == {"critical", "high", "medium"}

Categories == {"interface_implementation", "type_safety"}

Descriptions == {"missing properties", "implicit any", "other"}

\* AuditIssue, with the default status
AuditIssue(category, priority, description) ==
    [category |-> category, priority |-> priority, description |-> description,
     status |-> "pending"]

\* fix_issue: what the fix chosen by the category can return.  A fix edits
\* files and returns False when the edit raises; an issue no branch takes
\* returns False.
FixIssue(issue) ==
    IF \/ issue.category \in {"interface_implementation", "null_handling",
                              "compatibility", "database_schema"}
       \/ issue.category = "type_safety"
            /\ issue.description \in {"missing properties", "implicit any"}
    THEN BOOLEAN
    ELSE {FALSE}

\* [i for i in self.issues if i.priority == priority and i.status == "pending"]
PendingWith(is, priority) ==
    SelectSeq([i \in DOMAIN is |-> i],
              LAMBDA i : is[i].priority = priority /\ is[i].status = "pending")

\* the while loop of run_fixes up to the for loop: the pending issues by
\* priority, or the break when there is none
StartIteration ==
    /\ runPc = "while"
    /\ iteration < max_iterations
    /\ iteration' = iteration + 1
    /\ LET all == PendingWith(auditor_issues, "critical")
                  \o PendingWith(auditor_issues, "high")
                  \o PendingWith(auditor_issues, "medium")
       IN  /\ all_issues' = all
           /\ runPc' = IF all = <<>> THEN "final" ELSE "for"
    /\ UNCHANGED <<fixVars, crossVars, notesVars, reviewVars, auditRunVars, calendarVars,
                   scoreVars, pipeVars, auditor_issues, fixed_count, runReturn>>

\* one pass of the for loop: the issue is fixed or failed
FixNextIssue ==
    /\ runPc = "for"
    /\ all_issues # <<>>
    /\ LET i == Head(all_issues) IN
       \E fixed \in FixIssue(auditor_issues[i]) :
          /\ auditor_issues' = [auditor_issues EXCEPT ![i].status =
                                    IF fixed THEN "fixed" ELSE "failed"]
          /\ fixed_count' = IF fixed THEN fixed_count + 1 ELSE fixed_count
    /\ all_issues' = Tail(all_issues)
    /\ UNCHANGED <<fixVars, crossVars, notesVars, reviewVars, auditRunVars, calendarVars,
                   scoreVars, pipeVars, iteration, runPc, runReturn>>

\* after the for loop: break when no issue is pending
CheckPending ==
    /\ runPc = "for"
    /\ all_issues = <<>>
    /\ runPc' = IF \E i \in DOMAIN auditor_issues : auditor_issues[i].status = "pending"
                THEN "while" ELSE "final"
    /\ UNCHANGED <<fixVars, crossVars, notesVars, reviewVars, auditRunVars, calendarVars,
                   scoreVars, pipeVars, auditor_issues, iteration, all_issues, fixed_count,
                   runReturn>>

\* the final validation, after a break or when the while condition fails
FinalValidation ==
    /\ \/ runPc = "final"
       \/ runPc = "while" /\ iteration >= max_iterations
    /\ runReturn' = IF \E i \in DOMAIN auditor_issues : auditor_issues[i].status # "fixed"
                    THEN "False" ELSE "True"
    /\ runPc' = "done"
    /\ UNCHANGED <<fixVars, crossVars, notesVars, reviewVars, auditRunVars, calendarVars,
                   scoreVars, pipeVars, auditor_issues, iteration, all_issues, fixed_count>>

AuditIssues ==
    {AuditIssue(c, p, d) : c \in Categories, p \in Priorities, d \in Descriptions}

InitRunFixes ==
    /\ appointments = {}
    /\ clients = Clients
    /\ indexes = {PrimaryKeyIndex}
    /\ InitFixers({}, 0)
    /\ InitAudit("off")
    /\ CrossOff
    /\ NotesOff
    /\ ReviewOff
    /\ AuditRunOff
    /\ CalendarOff
    /\ ScoreOff
    /\ PipeOff
    /\ auditor_issues \in SeqsUpTo(AuditIssues, MaxAuditIssues) \ {<<>>}
    /\ iteration = 0
    /\ all_issues = <<>>
    /\ fixed_count = 0
    /\ runPc = "while"
    /\ runReturn = "None"

NextRunFixes ==
    \/ StartIteration
    \/ FixNextIssue
    \/ CheckPending
    \/ FinalValidation

SpecRunFixes == InitRunFixes /\ [][NextRunFixes]_vars

\* ===================================================================== claims
AfterCommit == {"indexes", "create", "analyze", "report", "done"}

\* the half-open ranges of two rows intersect
Intersect(a, b) == a.start_time < b.end_time /\ b.start_time < a.end_time

\* C1: once a run of the duplicate repair has committed, every group of
\* appointments that shared (client_id, start_time, end_time) when the run
\* read the table is reduced to one row, and no row of the group was created
\* before the row that is kept.
C1_KeepsEarliestCreated ==
    \A f \in enabled :
        pc[f] \in AfterCommit =>
            \A k \in DuplicateKeys(readFrom[f]) :
                \E r \in Group(readFrom[f], k) :
                    /\ Group(appointments, k) = {r}
                    /\ \A o \in Group(readFrom[f], k) : ~CreatedBefore(o, r)

\* C1 witness: a run has ended after repairing a group of three rows that
\* were not all created at the same time.
C1_Witness ==
    /\ pc[1] = "done"
    /\ \E k \in DuplicateKeys(readFrom[1]) :
        /\ Cardinality(Group(readFrom[1], k)) = 3
        /\ \E a, b \in Group(readFrom[1], k) : CreatedBefore(a, b)

C4_FailedRepairLeavesTable ==
    \A f \in enabled :
        pc[f] = "failed" => appointments = readFrom[f] /\ txDeleted[f] = {}

\* C4 witness: a run failed after one delete of its loop and before another.
C4_Witness ==
    /\ pc[1] = "failed"
    /\ total_removed[1] >= 1
    /\ removeList[1] # <<>>

C9_OverlapReportOnly ==
    [][((\E f \in enabled : pc[f] = "analyze" /\ pc'[f] = "report")
            \/ (auditPc = "check_duplicates" /\ auditPc' = "done"))
        => (appointments' = appointments /\ clients' = clients /\ indexes' = indexes)]_vars

\* C9 witness: the listing has found overlapping pairs and the run goes on.
C9_Witness ==
    /\ pc[1] = "report"
    /\ overlaps[1] # {}
    /\ warnings # <<>>

HasSelected(f) == pc[f] \notin {"off", "idle", "select"}

\* C2: two runs that read the same rows of appointments select the same
\* record to keep for every duplicate group.
C2_KeepDeterministic ==
    \A f, g \in enabled :
        (HasSelected(f) /\ HasSelected(g) /\ readFrom[f] = readFrom[g]) =>
            keep[f] = keep[g]

\* C5: a run at whose end a duplicate group that it had read and repaired
\* exists in the table does not end with status 0.
C5_RemainingDuplicatesFail ==
    \A i \in 1..Len(history) :
        (DuplicateKeys(history[i].appointments) \cap DuplicateKeys(history[i].before) # {}) =>
            history[i].exit # 0

\* C6: no two runs hold uncommitted deletes of rows of the same
\* (client_id, start_time, end_time) bucket at the same time.
C6_BucketSerialized ==
    \A f, g \in enabled :
        f # g =>
            \A a, b \in appointments :
                (a.id \in txDeleted[f] /\ b.id \in txDeleted[g]) => Key(a) # Key(b)

\* C7: when the cross-layer test and the time synchronization check are
\* done, no appointment whose API start time and datastore start time denote
\* the same instant is recorded with a time mismatch.
C7_SameInstantNoMismatch ==
    \A i \in DOMAIN db_appointments :
        \A a \in FirstWithId(api_appointments, db_appointments[i].id) :
            Instant(a.startTime) = db_appointments[i].start_time.hour =>
                /\ crossPc = "done" =>
                    \A j \in DOMAIN consistency_issues :
                        consistency_issues[j] # <<"time mismatch", db_appointments[i].id>>
                /\ syncPc = "done" => db_appointments[i].id \notin issues_found

\* C10: a session note whose appointment link is missing is never modified
\* by a run; only the duplicate repair changes the datastore.
C10_MissingLinkNotRepaired ==
    [][\A i \in DOMAIN session_notes :
          session_notes[i].appointment_id = NULL => session_notes'[i] = session_notes[i]]_vars

\* C11: a field value proposed by the AI extraction service is never written
\* to the datastore automatically, whatever its confidence; here: no step of
\* the date review changes a stored session_date.
C11_ProposalNeverWritten ==
    [][note_dates' = note_dates]_vars

\* C12: when a source of the cross-layer check is unavailable (the API
\* answers with a non-200 status, or the datastore cannot be reached), the
\* check is recorded as skipped: it neither logs a failed (mismatch) entry
\* nor passes, i.e. returns True, as if there were no issue.
C12_UnavailableSourceSkipped ==
    (crossPc = "done" /\ (~dbUp \/ apiStatus # 200)) =>
        /\ crossReturn # "True"
        /\ \A i \in DOMAIN audit_results : audit_results[i].passed

\* C13: when one check of the run throws while the datastore was reachable
\* (the audit had connected and started its checks), the run is not aborted:
\* it still ends with a report, printed and saved.
C13_RunAlwaysReports ==
    auditPc \in {"done", "failed"} => (audit_report.printed /\ audit_report.saved)

\* an issue of the audit that is Critical: labelled CRITICAL by the check
\* that found it, or a same-source duplicate by time
CriticalIssueOpen ==
    \E i \in DOMAIN issues :
        \/ issues[i][1] = "CRITICAL"
        \/ issues[i][2] = "potential duplicate appointments by time"

\* C14: the exit status of a run that ran to its end is non-zero if and only
\* if at least one Critical issue is open when it ends.
C14_ExitReflectsCritical ==
    auditPc = "done" => (auditExit # 0 <=> CriticalIssueOpen)

\* the google event ids the audit reported as duplicated
ReportedDuplicateEvents ==
    {issues[i][3] : i \in {j \in DOMAIN issues : issues[j][2] = "Event ID appears"}}

\* C15: detection and repair use the same identity key: once the audit has
\* reported a google_event_id as duplicated and the fix script has then run to
\* its end, one appointment with that google_event_id is left.
C15_ReportedEventDuplicatesRepaired ==
    (auditPc = "done" /\ pc[1] = "done") =>
        \A g \in ReportedDuplicateEvents :
            Cardinality({r \in appointments : r.google_event_id = g}) = 1

\* an event of the provider mirrors a datastore appointment: it names the
\* same client and starts at the same hour
Mirrors(e, d) == d.client_name \in e.mentions /\ e.hour = d.start_time.hour

\* C16: a datastore appointment counts as present in the calendar provider
\* only through explicit linkage: when the calendar test has compared the
\* two sources, every appointment of today that no event mirrors is listed in
\* sync_issues, also when an event at another time mentions its client.
C16_PresentOnlyByLinkage ==
    (calPc = "done" /\ calReturn = "True") =>
        \A i \in DOMAIN db_appointments :
            (\A j \in DOMAIN events.list : ~Mirrors(events.list[j], db_appointments[i])) =>
                \E k \in DOMAIN sync_issues : sync_issues[k] = db_appointments[i].client_name

\* the rows whose start is strictly before their end
ValidRanges(rows) == {r \in rows : r.start_time < r.end_time}

\* C17: a row whose start is not strictly before its end is reported by the
\* validation check and takes part in no later comparison of the run: the
\* duplicate groups and the overlapping clients the audit counts are those
\* of the rows with a valid range.
C17_InvalidRangeExcluded ==
    auditPc = "done" =>
        /\ (ValidRanges(appointments) # appointments) =>
               \E i \in DOMAIN issues : issues[i][2] = "appointments have invalid time ranges"
        /\ \A i \in DOMAIN issues :
               issues[i][2] = "potential duplicate appointments by time" =>
                   issues[i][3] = Cardinality(DuplicateKeys(ValidRanges(appointments)))
        /\ \A i \in DOMAIN warnings :
               warnings[i][1] = "clients have overlapping appointments" =>
                   warnings[i][2] = Cardinality(ClientsWithOverlap(ValidRanges(appointments)))

\* C18: severity is a function of the category: every issue with which a
\* check of the audit reports same-source duplicates, by time or by google
\* event id, is labelled CRITICAL.
C18_DuplicateAlwaysCritical ==
    \A i \in DOMAIN issues :
        issues[i][2] \in {"potential duplicate appointments by time",
                          "Google event IDs are duplicated"} =>
            issues[i][1] = "CRITICAL"

\* C19: a datastore appointment that is absent from the calendar provider is
\* an orphan of severity High: the entry with which the calendar test
\* reports appointments it did not find in the calendar has priority high.
C19_MirrorOrphanIsHigh ==
    \A i \in DOMAIN audit_results :
        (audit_results[i].test = "Google Calendar - Appointment Sync"
         /\ ~audit_results[i].passed) =>
            audit_results[i].priority = "high"

\* the weight the specification gives an open issue of a severity; a warning
\* of the calendar audit, which carries no severity, counts as the lightest
SeverityWeight(severity) ==
    CASE severity = "CRITICAL" -> 10
      [] severity = "HIGH"     -> 5
      [] severity = "MEDIUM"   -> 2
      [] OTHER                 -> 1

RECURSIVE WeightedIssues(_)
WeightedIssues(list) ==
    IF list = <<>> THEN 0
    ELSE SeverityWeight(Head(list)) + WeightedIssues(Tail(list))

\* C20: the report score equals passedChecks / (passedChecks + weighted open
\* issues), an open issue weighing 10 if Critical, 5 if High, 2 if Medium and
\* 1 if Low.  The application audit records no passed checks, so its score on
\* the scale of 100 would be 0 whenever an issue is open; the calendar audit's
\* score is the fraction score.num / score.den on the scale of 100.
C20_ScoreIsWeightedPassRate ==
    /\ ( /\ scoreScript = "application"
         /\ scorePc = "done"
         /\ WeightedIssues(critical_issues \o high_issues \o app_warnings) > 0 )
       => audit_score = 0
    /\ ( /\ scoreScript = "calendar"
         /\ scorePc = "done"
         /\ score # NoScore )
       => LET passedChecks == Len(report.passed_checks)
              weighted == WeightedIssues(report.critical_issues \o report.issues
                                         \o report.warnings)
          IN  score.num * (passedChecks + weighted) = BaseScore * passedChecks * score.den

C30_CriticalIssueHasFix ==
    auditPc \in {"main", "done"} =>
        \A i \in DOMAIN issues :
            Label(issues[i]) = "CRITICAL" =>
                \E k \in DOMAIN audit_report.fix_priority :
                    audit_report.fix_priority[k].issue = issues[i]

\* C22: a slow or failed call to the external calendar provider never blocks
\* the datastore-only checks: the datastore-only check of the run
\* (test_database_connectivity) eventually produces its result, however long
\* the provider takes and whether or not it fails.
C22_DatastoreCheckNotBlocked ==
    <>(\E i \in DOMAIN pipeLog : pipeLog[i].test = "test_database_connectivity")

NormalizeName(name) ==
    CASE name = "Ann Lee"  -> "ann lee"
      [] name = "ann lee " -> "ann lee"

\* C24: names are compared across sources after trimming and case-folding:
\* when the API's client name and the datastore's differ only in letter case
\* or surrounding whitespace, the cross-layer test records no client_name
\* mismatch for the appointment.
C24_NormalizedNamesNoMismatch ==
    crossPc = "done" =>
        \A i \in DOMAIN db_appointments :
            \A a \in FirstWithId(api_appointments, db_appointments[i].id) :
                (a.has_name /\ NormalizeName(a.client_name)
                               = NormalizeName(db_appointments[i].client_name)) =>
                    \A j \in DOMAIN consistency_issues :
                        consistency_issues[j] # <<"client_name mismatch", db_appointments[i].id>>

\* C25: under any interleaving of two duplicate-repair runs on the same
\* datastore, every (client_id, start_time, end_time) bucket that held an
\* appointment when a run read the table holds exactly one appointment once
\* both runs have committed; a bucket is never emptied.
C25_ConcurrentRepairKeepsOne ==
    (\A f \in Fixers : pc[f] \in AfterCommit) =>
        \A f \in Fixers :
            \A r \in readFrom[f] :
                Cardinality(Group(appointments, Key(r))) = 1

\* C26: the duplicate repair deletes only appointments of a (client_id,
\* start_time, end_time) group with more than one member: no step of a run
\* removes an appointment whose key was unique when the run read the table,
\* none adds or changes an appointment, and the clients stay as they are.
C26_RepairTouchesOnlyDuplicates ==
    [][ /\ clients' = clients
        /\ appointments' \subseteq appointments
        /\ \A r \in appointments \ appointments' :
             \E f \in enabled : Key(r) \in DuplicateKeys(readFrom[f]) ]_vars

\* a run has committed its deletes on a table that held a duplicate group
\* and an appointment with a key of its own, which is still there
C26_Witness ==
    /\ pc[1] \in AfterCommit
    /\ DuplicateKeys(readFrom[1]) # {}
    /\ appointments # readFrom[1]
    /\ \E r \in appointments : Cardinality(Group(readFrom[1], Key(r))) = 1

\* C27: after a note is reviewed with a high-confidence extracted date that
\* passes validation, and the database write does not fail, the note's stored
\* session_date equals the extracted date, also when the stored session_date
\* was empty before the review.
C27_ValidatedDateStored ==
    \A k \in DOMAIN review_results :
        LET result == review_results[k]
        IN  ( /\ result.confidence = "high"
              /\ result.ai_extracted_date # NULL
              /\ ValidateDate(result.ai_extracted_date)
              /\ result.action_taken # "update_failed" ) =>
                note_dates[result.note_id].session_date = result.ai_extracted_date

\* C28: session-note processing converges: once process_all_notes has
\* processed the notes it fetched and completed with no errors, the query of
\* an immediately following run selects no note, so that run has nothing to
\* process and modifies nothing.
C28_ProcessingConverges ==
    (notesPc = "done" /\ error_count = 0 /\ processed_count > 0) =>
        NotesNeedingProcessing(session_notes) = {<<>>}

\* C29: run_fixes attempts an issue whose fix did not succeed again in the
\* following iteration, until it is fixed or the limit of 10 iterations is
\* reached: when run_fixes has returned, every issue is fixed or the
\* iterations were used up.
C29_UnfixedIssueRetried ==
    runPc = "done" =>
        \/ \A i \in DOMAIN auditor_issues : auditor_issues[i].status = "fixed"
        \/ iteration = max_iterations

====
